---- MODULE Spec2Model ----
(***************************************************************************)
(* Autonomy Control Plugin (.opencode/plugin/autonomy-control.ts and its   *)
(* utilities): the per-session autonomy state, the permission hook, the    *)
(* message hook, the set-mode tool, the tool-execution hooks, the session  *)
(* lifecycle events and the durable record of each session.                *)
(*                                                                         *)
(* Text is processed character by character: a JavaScript string is the   *)
(* sequence of its characters (Chars), and the regular expressions of the  *)
(* source are evaluated as position sets (the set of positions at which a  *)
(* prefix of the pattern can end).                                         *)
(***************************************************************************)
EXTENDS Integers, Sequences, FiniteSets, TLC

(***************************************************************************)
(* Strings                                                                 *)
(***************************************************************************)

\* The characters of every string literal the model handles.
Chars ==
  "" :> <<>> @@
  "WRITE" :> <<"W", "R", "I", "T", "E">> @@
  "Write" :> <<"W", "r", "i", "t", "e">> @@
  "EDIT" :> <<"E", "D", "I", "T">> @@
  "Edit" :> <<"E", "d", "i", "t">> @@
  "BASH" :> <<"B", "A", "S", "H">> @@
  "DELETE" :> <<"D", "E", "L", "E", "T", "E">> @@
  "Delete" :> <<"D", "e", "l", "e", "t", "e">> @@
  "EXECUTE" :> <<"E", "X", "E", "C", "U", "T", "E">> @@
  "Execute" :> <<"E", "x", "e", "c", "u", "t", "e">> @@
  "COMMIT" :> <<"C", "O", "M", "M", "I", "T">> @@
  "Commit" :> <<"C", "o", "m", "m", "i", "t">> @@
  "PATCH" :> <<"P", "A", "T", "C", "H">> @@
  "Patch" :> <<"P", "a", "t", "c", "h">> @@
  "TASK" :> <<"T", "A", "S", "K">> @@
  "Task" :> <<"T", "a", "s", "k">> @@
  "FETCH" :> <<"F", "E", "T", "C", "H">> @@
  "Fetch" :> <<"F", "e", "t", "c", "h">> @@
  "SEARCH" :> <<"S", "E", "A", "R", "C", "H">> @@
  "Search" :> <<"S", "e", "a", "r", "c", "h">> @@
  "ASK" :> <<"A", "S", "K">> @@
  "Ask" :> <<"A", "s", "k">> @@
  "READ" :> <<"R", "E", "A", "D">> @@
  "Read" :> <<"R", "e", "a", "d">> @@
  "LIST" :> <<"L", "I", "S", "T">> @@
  "List" :> <<"L", "i", "s", "t">> @@
  "GREP" :> <<"G", "R", "E", "P">> @@
  "Grep" :> <<"G", "r", "e", "p">> @@
  "GLOB" :> <<"G", "L", "O", "B">> @@
  "Glob" :> <<"G", "l", "o", "b">> @@
  "SEARCH_FILES" :> <<"S", "E", "A", "R", "C", "H", "_", "F", "I", "L", "E", "S">> @@
  "Search_files" :> <<"S", "e", "a", "r", "c", "h", "_", "f", "i", "l", "e", "s">> @@
  "deploy" :> <<"d", "e", "p", "l", "o", "y">> @@
  "DEPLOY" :> <<"D", "E", "P", "L", "O", "Y">> @@
  "Deploy" :> <<"D", "e", "p", "l", "o", "y">> @@
  "rm -fr ./x" :> <<"r", "m", " ", "-", "f", "r", " ", ".", "/", "x">> @@
  "rm *.txt" :> <<"r", "m", " ", "*", ".", "t", "x", "t">> @@
  "rmdir x" :> <<"r", "m", "d", "i", "r", " ", "x">> @@
  "drop table users" :> <<"d", "r", "o", "p", " ", "t", "a", "b", "l", "e", " ", "u", "s", "e", "r", "s">> @@
  "drop database mydb" :> <<"d", "r", "o", "p", " ", "d", "a", "t", "a", "b", "a", "s", "e", " ", "m", "y", "d", "b">> @@
  "truncate table users" :> <<"t", "r", "u", "n", "c", "a", "t", "e", " ", "t", "a", "b", "l", "e", " ", "u", "s", "e", "r", "s">> @@
  "sudo rm -rf /" :> <<"s", "u", "d", "o", " ", "r", "m", " ", "-", "r", "f", " ", "/">> @@
  "echo hi" :> <<"e", "c", "h", "o", " ", "h", "i">> @@
  "cat f.txt" :> <<"c", "a", "t", " ", "f", ".", "t", "x", "t">> @@
  "grep x f.txt" :> <<"g", "r", "e", "p", " ", "x", " ", "f", ".", "t", "x", "t">> @@
  "rm -rf x" :> <<"r", "m", " ", "-", "r", "f", " ", "x">> @@
  "rm -fr x" :> <<"r", "m", " ", "-", "f", "r", " ", "x">> @@
  "rm -r -f x" :> <<"r", "m", " ", "-", "r", " ", "-", "f", " ", "x">> @@
  "rm -f -r x" :> <<"r", "m", " ", "-", "f", " ", "-", "r", " ", "x">> @@
  "rm f.txt" :> <<"r", "m", " ", "f", ".", "t", "x", "t">> @@
  "DELETE FROM users" :> <<"D", "E", "L", "E", "T", "E", " ", "F", "R", "O", "M", " ", "u", "s", "e", "r", "s">> @@
  "echo x > /etc/hosts" :> <<"e", "c", "h", "o", " ", "x", " ", ">", " ", "/", "e", "t", "c", "/", "h", "o", "s", "t", "s">> @@
  "mkfs /dev/sda" :> <<"m", "k", "f", "s", " ", "/", "d", "e", "v", "/", "s", "d", "a">> @@
  "dd if=/dev/zero of=/dev/sda" :> <<"d", "d", " ", "i", "f", "=", "/", "d", "e", "v", "/", "z", "e", "r", "o", " ", "o", "f", "=", "/", "d", "e", "v", "/", "s", "d", "a">> @@
  "format c:" :> <<"f", "o", "r", "m", "a", "t", " ", "c", ":">> @@
  " hi " :> <<" ", "h", "i", " ">> @@
  "ulw: go " :> <<"u", "l", "w", ":", " ", "g", "o", " ">> @@
  "ulw: careful: x" :> <<"u", "l", "w", ":", " ", "c", "a", "r", "e", "f", "u", "l", ":", " ", "x">> @@
  "Production:   deploy now" :> <<"P", "r", "o", "d", "u", "c", "t", "i", "o", "n", ":", " ", " ", " ", "d", "e", "p", "l", "o", "y", " ", "n", "o", "w">> @@
  "read" :> <<"r", "e", "a", "d">> @@
  "write" :> <<"w", "r", "i", "t", "e">> @@
  "edit" :> <<"e", "d", "i", "t">> @@
  "bash" :> <<"b", "a", "s", "h">> @@
  "Bash" :> <<"B", "a", "s", "h">> @@
  "delete" :> <<"d", "e", "l", "e", "t", "e">> @@
  "execute" :> <<"e", "x", "e", "c", "u", "t", "e">> @@
  "commit" :> <<"c", "o", "m", "m", "i", "t">> @@
  "patch" :> <<"p", "a", "t", "c", "h">> @@
  "task" :> <<"t", "a", "s", "k">> @@
  "fetch" :> <<"f", "e", "t", "c", "h">> @@
  "search" :> <<"s", "e", "a", "r", "c", "h">> @@
  "ask" :> <<"a", "s", "k">> @@
  "list" :> <<"l", "i", "s", "t">> @@
  "grep" :> <<"g", "r", "e", "p">> @@
  "glob" :> <<"g", "l", "o", "b">> @@
  "search_files" :> <<"s", "e", "a", "r", "c", "h", "_", "f", "i", "l", "e", "s">> @@
  "mystery" :> <<"m", "y", "s", "t", "e", "r", "y">> @@
  "ls -la" :> <<"l", "s", " ", "-", "l", "a">> @@
  "rm -rf /tmp/x" :> <<"r", "m", " ", "-", "r", "f", " ", "/", "t", "m", "p", "/", "x">> @@
  "ultrawork:" :> <<"u", "l", "t", "r", "a", "w", "o", "r", "k", ":">> @@
  "ulw:" :> <<"u", "l", "w", ":">> @@
  "quick:" :> <<"q", "u", "i", "c", "k", ":">> @@
  "fast:" :> <<"f", "a", "s", "t", ":">> @@
  "careful:" :> <<"c", "a", "r", "e", "f", "u", "l", ":">> @@
  "verify:" :> <<"v", "e", "r", "i", "f", "y", ":">> @@
  "safe:" :> <<"s", "a", "f", "e", ":">> @@
  "production:" :> <<"p", "r", "o", "d", "u", "c", "t", "i", "o", "n", ":">> @@
  "ulw: go" :> <<"u", "l", "w", ":", " ", "g", "o">> @@
  " Quick:  fix" :> <<" ", "Q", "u", "i", "c", "k", ":", " ", " ", "f", "i", "x">> @@
  "careful: x" :> <<"c", "a", "r", "e", "f", "u", "l", ":", " ", "x">> @@
  "SAFE:y" :> <<"S", "A", "F", "E", ":", "y">> @@
  "hello" :> <<"h", "e", "l", "l", "o">> @@
  "fast go" :> <<"f", "a", "s", "t", " ", "g", "o">> @@
  "rm" :> <<"r", "m">> @@
  "rmdir" :> <<"r", "m", "d", "i", "r">> @@
  "truncate" :> <<"t", "r", "u", "n", "c", "a", "t", "e">> @@
  "drop" :> <<"d", "r", "o", "p">> @@
  "database" :> <<"d", "a", "t", "a", "b", "a", "s", "e">> @@
  "table" :> <<"t", "a", "b", "l", "e">> @@
  "schema" :> <<"s", "c", "h", "e", "m", "a">> @@
  "mkfs" :> <<"m", "k", "f", "s">> @@
  "dd" :> <<"d", "d">> @@
  "if=" :> <<"i", "f", "=">> @@
  "format" :> <<"f", "o", "r", "m", "a", "t">> @@
  "sudo" :> <<"s", "u", "d", "o">> @@
  "ultrawork" :> <<"u", "l", "t", "r", "a", "w", "o", "r", "k">> @@
  "ulw" :> <<"u", "l", "w">> @@
  "quick" :> <<"q", "u", "i", "c", "k">> @@
  "fast" :> <<"f", "a", "s", "t">> @@
  "careful" :> <<"c", "a", "r", "e", "f", "u", "l">> @@
  "verify" :> <<"v", "e", "r", "i", "f", "y">> @@
  "safe" :> <<"s", "a", "f", "e">> @@
  "production" :> <<"p", "r", "o", "d", "u", "c", "t", "i", "o", "n">> @@
  "plan" :> <<"p", "l", "a", "n">> @@
  "go ulw: x" :> <<"g", "o", " ", "u", "l", "w", ":", " ", "x">>

UpperLetters ==
  <<"A", "B", "C", "D", "E", "F", "G", "H", "I", "J", "K", "L", "M",
    "N", "O", "P", "Q", "R", "S", "T", "U", "V", "W", "X", "Y", "Z">>

LowerLetters ==
  <<"a", "b", "c", "d", "e", "f", "g", "h", "i", "j", "k", "l", "m",
    "n", "o", "p", "q", "r", "s", "t", "u", "v", "w", "x", "y", "z">>

Digits == {"0", "1", "2", "3", "4", "5", "6", "7", "8", "9"}

Range(f) == {f[i] : i \in DOMAIN f}

\* String.prototype.toLowerCase, one character
LowerChar(ch) ==
  IF \E i \in DOMAIN UpperLetters : UpperLetters[i] = ch
  THEN LowerLetters[CHOOSE i \in DOMAIN UpperLetters : UpperLetters[i] = ch]
  ELSE ch

\* String.prototype.toLowerCase
ToLowerCase(s) == [i \in 1..Len(s) |-> LowerChar(s[i])]

\* the regular expression classes \s, [a-zA-Z], \w and . (any but a line end)
IsSpace(ch) == ch \in {" ", "\t", "\n", "\r"}
IsAlpha(ch) == ch \in Range(UpperLetters) \cup Range(LowerLetters)
IsWord(ch) == IsAlpha(ch) \/ ch \in Digits \/ ch = "_"
IsDot(ch) == ch \notin {"\n", "\r"}
NotSpace(ch) == ~IsSpace(ch)

\* String.prototype.trim
Trim(s) ==
  LET keep == {i \in 1..Len(s) : ~IsSpace(s[i])}
  IN IF keep = {} THEN <<>>
     ELSE LET lo == CHOOSE i \in keep : \A j \in keep : i <= j
              hi == CHOOSE i \in keep : \A j \in keep : j <= i
          IN SubSeq(s, lo, hi)

\* String.prototype.startsWith
StartsWith(s, prefix) ==
  /\ Len(prefix) <= Len(s)
  /\ SubSeq(s, 1, Len(prefix)) = prefix

(***************************************************************************)
(* Regular expressions as position sets: a position p in 1..Len(s)+1 is    *)
(* the index of the next character to read.                                *)
(***************************************************************************)
Positions(s) == 1..(Len(s) + 1)

\* a literal, read from any position of P; ci = the /i flag
Lit(s, P, lit, ci) ==
  {p + Len(lit) : p \in {q \in P : /\ q + Len(lit) - 1 <= Len(s)
                                   /\ LET got == SubSeq(s, q, q + Len(lit) - 1)
                                      IN IF ci THEN ToLowerCase(got) = ToLowerCase(lit)
                                               ELSE got = lit}}

\* membership in the character class of that name
InClass(class, ch) ==
  CASE class = "IsSpace" -> IsSpace(ch)
    [] class = "IsAlpha" -> IsAlpha(ch)
    [] class = "IsWord" -> IsWord(ch)
    [] class = "IsDot" -> IsDot(ch)
    [] class = "NotSpace" -> NotSpace(ch)

\* X* for a character class X
Star(s, P, class) ==
  {q \in Positions(s) : \E p \in P : p <= q /\ \A k \in p..(q - 1) : InClass(class, s[k])}

\* X+ for a character class X
Plus(s, P, class) ==
  {q \in Positions(s) : \E p \in P : p < q /\ \A k \in p..(q - 1) : InClass(class, s[k])}

\* \b: exactly one side of the position is a word character
Boundary(s, P) ==
  {p \in P : LET before == p > 1 /\ IsWord(s[p - 1])
                 after == p <= Len(s) /\ IsWord(s[p])
             IN before # after}

\* (?!\w): the next character is not a word character
NotBeforeWord(s, P) == {p \in P : ~(p <= Len(s) /\ IsWord(s[p]))}

(***************************************************************************)
(* JavaScript values that are not strings                                  *)
(***************************************************************************)
Undefined == "<undefined>"
NotAString == "<number>"

IsString(v) == v \notin {Undefined, NotAString}

\* truthiness of a value: undefined and the empty string are falsy
Truthy(v) == v # Undefined /\ v # ""

(***************************************************************************)
(* utils/risk-detection.ts                                                 *)
(***************************************************************************)

\* /rm\s+-[a-zA-Z]*r[a-zA-Z]*f/
RmRecursiveForce(s) ==
  Lit(s, Star(s, Lit(s, Star(s, Lit(s, Plus(s, Lit(s, Positions(s), Chars["rm"], FALSE),
    "IsSpace"), <<"-">>, FALSE), "IsAlpha"), <<"r">>, FALSE), "IsAlpha"), <<"f">>, FALSE) # {}

\* /rm\s+-[a-zA-Z]*f[a-zA-Z]*r/
RmForceRecursive(s) ==
  Lit(s, Star(s, Lit(s, Star(s, Lit(s, Plus(s, Lit(s, Positions(s), Chars["rm"], FALSE),
    "IsSpace"), <<"-">>, FALSE), "IsAlpha"), <<"f">>, FALSE), "IsAlpha"), <<"r">>, FALSE) # {}

\* /rm\s+.*\*/
RmWildcard(s) ==
  Lit(s, Star(s, Plus(s, Lit(s, Positions(s), Chars["rm"], FALSE), "IsSpace"), "IsDot"),
      <<"*">>, FALSE) # {}

\* /rm\s+.*\.\*/
RmDotStar(s) ==
  Lit(s, Star(s, Plus(s, Lit(s, Positions(s), Chars["rm"], FALSE), "IsSpace"), "IsDot"),
      <<".", "*">>, FALSE) # {}

\* /rm\s+-r(?!\w)/
RmRecursive(s) ==
  NotBeforeWord(s, Lit(s, Plus(s, Lit(s, Positions(s), Chars["rm"], FALSE), "IsSpace"),
                       <<"-", "r">>, FALSE)) # {}

\* /rmdir\s+/
Rmdir(s) == Plus(s, Lit(s, Positions(s), Chars["rmdir"], FALSE), "IsSpace") # {}

\* /\bdelete\b/i
DeleteWord(s) ==
  Boundary(s, Lit(s, Boundary(s, Positions(s)), Chars["delete"], TRUE)) # {}

\* /\btruncate\b/i
TruncateWord(s) ==
  Boundary(s, Lit(s, Boundary(s, Positions(s)), Chars["truncate"], TRUE)) # {}

\* a variant of the pattern for databases only: /\bdrop\s+database\b/i
DropObject_DatabaseOnly(s) ==
  LET P == Plus(s, Lit(s, Boundary(s, Positions(s)), Chars["drop"], TRUE), "IsSpace")
  IN Boundary(s, Lit(s, P, Chars["database"], TRUE)) # {}

\* /\bdrop\s+(?:database|table|schema)\b/i
DropObject(s) ==
  LET P == Plus(s, Lit(s, Boundary(s, Positions(s)), Chars["drop"], TRUE), "IsSpace")
  IN Boundary(s, Lit(s, P, Chars["database"], TRUE) \cup Lit(s, P, Chars["table"], TRUE)
                   \cup Lit(s, P, Chars["schema"], TRUE)) # {}

\* />\s*\/[^\s]+/
RedirectToPath(s) ==
  Plus(s, Lit(s, Star(s, Lit(s, Positions(s), <<">">>, FALSE), "IsSpace"), <<"/">>, FALSE),
       "NotSpace") # {}

\* /\bmkfs\b/
Mkfs(s) == Boundary(s, Lit(s, Boundary(s, Positions(s)), Chars["mkfs"], FALSE)) # {}

\* /\bdd\s+if=/
DiskDump(s) ==
  Lit(s, Plus(s, Lit(s, Boundary(s, Positions(s)), Chars["dd"], FALSE), "IsSpace"),
      Chars["if="], FALSE) # {}

\* /\bformat\b/i
FormatWord(s) ==
  Boundary(s, Lit(s, Boundary(s, Positions(s)), Chars["format"], TRUE)) # {}

\* /sudo\s+rm/
SudoRm(s) ==
  Lit(s, Plus(s, Lit(s, Positions(s), Chars["sudo"], FALSE), "IsSpace"), Chars["rm"],
      FALSE) # {}

\* /sudo\s+.*\bdelete\b/i
SudoDelete(s) ==
  Boundary(s, Lit(s, Boundary(s, Star(s, Plus(s, Lit(s, Positions(s), Chars["sudo"], TRUE),
    "IsSpace"), "IsDot")), Chars["delete"], TRUE)) # {}

\* destructivePatterns.some(pattern => pattern.test(command))
MatchesDestructivePattern(s) ==
  \/ RmRecursiveForce(s) \/ RmForceRecursive(s) \/ RmWildcard(s) \/ RmDotStar(s)
  \/ RmRecursive(s) \/ Rmdir(s) \/ DeleteWord(s) \/ TruncateWord(s) \/ DropObject(s)
  \/ RedirectToPath(s) \/ Mkfs(s) \/ DiskDump(s) \/ FormatWord(s) \/ SudoRm(s)
  \/ SudoDelete(s)

isDestructiveCommand(command) ==
  IF ~Truthy(command) \/ ~IsString(command) THEN FALSE
  ELSE MatchesDestructivePattern(Chars[command])

highRiskTools == <<"write", "edit", "bash", "delete", "execute", "commit", "patch">>
mediumRiskTools == <<"task", "fetch", "search", "ask">>
readOnlyTools == <<"read", "list", "grep", "glob", "search_files">>

\* Array.prototype.includes on a list of string literals
Includes(list, s) == \E i \in DOMAIN list : Chars[list[i]] = s

\* a variant of the classification that compares the name as it is written
getToolRiskLevel_AsWritten(tool) ==
  IF ~Truthy(tool) \/ ~IsString(tool) THEN "medium"
  ELSE IF Includes(highRiskTools, Chars[tool]) THEN "high"
  ELSE IF Includes(mediumRiskTools, Chars[tool]) THEN "medium"
  ELSE IF Includes(readOnlyTools, Chars[tool]) THEN "low"
  ELSE "medium"

getToolRiskLevel(tool) ==
  IF ~Truthy(tool) \/ ~IsString(tool) THEN "medium"
  ELSE IF Includes(highRiskTools, ToLowerCase(Chars[tool])) THEN "high"
  ELSE IF Includes(mediumRiskTools, ToLowerCase(Chars[tool])) THEN "medium"
  ELSE IF Includes(readOnlyTools, ToLowerCase(Chars[tool])) THEN "low"
  ELSE "medium"

isReadOnlyTool(tool) == getToolRiskLevel(tool) = "low"

isHighRiskTool(tool) == getToolRiskLevel(tool) = "high"

(***************************************************************************)
(* types/autonomy.ts, utils/config.ts                                      *)
(***************************************************************************)
Modes == {"permissive", "balanced", "restrictive"}

Null == "<null>"

\* getDefaultConfig().autonomy.modes[mode].maxConcurrentTasks
PermissiveMaxTasks == 10
BalancedMaxTasks == 5
RestrictiveMaxTasks == 0

\* a variant of the lookup that answers for balanced whatever the mode
getMaxTasks_OfBalanced(mode) == BalancedMaxTasks

getMaxTasks(mode) ==
  CASE mode = "permissive" -> PermissiveMaxTasks
    [] mode = "balanced" -> BalancedMaxTasks
    [] mode = "restrictive" -> RestrictiveMaxTasks

\* the approval history keeps its last 50 entries
HistoryLimit == 50

(***************************************************************************)
(* Bounds of the model                                                     *)
(***************************************************************************)
\* the clock stops at MaxTime; a session record takes no more than MaxRequested
\* approval requests, MaxModeChanges mode changes and MaxTasks background tasks
MaxTime == 1
MaxRequested == 2
MaxModeChanges == 2
MaxTasks == 1
\* the history specification runs until a session has MaxOutcomes requests
MaxOutcomes == 52

\* background tasks one session starts: one more than the balanced cap
MaxBackground == 6

\* the conversation ids of the host: any string, "default" included
Conversations == {"default", "s1"}
SessionIDs == Conversations
CallIDs == {"c1", "c2"}

(***************************************************************************)
(* Insertion-ordered Set and Map of JavaScript.  A Set is the sequence of  *)
(* its elements in insertion order; a Map is the sequence of its keys in   *)
(* insertion order and the value at each key.                              *)
(***************************************************************************)
SetHas(S, x) == \E i \in DOMAIN S : S[i] = x

SetAdd(S, x) == IF SetHas(S, x) THEN S ELSE Append(S, x)

SetDelete(S, x) == SelectSeq(S, LAMBDA y : y # x)

\* Array.from(set)
ArrayFromSet(S) == [i \in 1..Len(S) |-> S[i]]

\* new Set(array): later duplicates are dropped
NewSet(arr) ==
  LET first == {i \in DOMAIN arr : \A j \in 1..(i - 1) : arr[j] # arr[i]}
      F[n \in 0..Len(arr)] ==
        IF n = 0 THEN <<>>
        ELSE IF n \in first THEN Append(F[n - 1], arr[n]) ELSE F[n - 1]
  IN F[Len(arr)]

EmptyMap == [order |-> <<>>, at |-> <<>>]

MapHas(m, k) == k \in DOMAIN m.at

MapSet(m, k, v) ==
  IF MapHas(m, k) THEN [m EXCEPT !.at[k] = v]
  ELSE [order |-> Append(m.order, k), at |-> (k :> v) @@ m.at]

\* Map.prototype.delete
MapDelete(m, k) ==
  [order |-> SelectSeq(m.order, LAMBDA x : x # k),
   at |-> [x \in DOMAIN m.at \ {k} |-> m.at[x]]]

\* Array.from(map.entries())
MapEntries(m) == [i \in 1..Len(m.order) |-> <<m.order[i], m.at[m.order[i]]>>]

\* new Map(entries): a key keeps its first place and its last value
NewMap(entries) ==
  LET F[n \in 0..Len(entries)] ==
        IF n = 0 THEN EmptyMap ELSE MapSet(F[n - 1], entries[n][1], entries[n][2])
  IN F[Len(entries)]

(***************************************************************************)
(* State                                                                   *)
(***************************************************************************)
VARIABLES
  config,      \* config.autonomy.defaultLevel, loaded when the plugin starts
  sessions,    \* the in-memory Map sessionID -> AutonomySessionState
  disk,        \* .opencode/state/autonomy/<sessionID>.json, parsed
  now,         \* Date.now()
  lastCall,    \* the last hook invocation: its input and what it returned
  baseConfig,  \* the configuration the autonomy-controller hook was created with
  sessionAutonomyStore  \* the Map sessionId -> mode of the autonomy-controller hook

vars == <<config, sessions, disk, now, lastCall, baseConfig, sessionAutonomyStore>>

NoState == [absent |-> TRUE]
\* createAutonomyControllerHook has not been called
NoHook == [created |-> FALSE]
NoFile == [absent |-> TRUE]
NoMetrics == [missing |-> TRUE]

\* the fresh state of getOrCreateState
NewState(sessionID) ==
  [sessionID |-> sessionID,
   currentMode |-> config.defaultLevel,
   defaultMode |-> config.defaultLevel,
   keywordOverride |-> Null,
   sessionOverride |-> Null,
   backgroundTasks |-> EmptyMap,
   maxConcurrentTasks |-> getMaxTasks(config.defaultLevel),
   pendingApprovals |-> <<>>,
   approvalHistory |-> <<>>,
   metrics |-> [toolCallsBlocked |-> 0, approvalsRequested |-> 0,
                approvalsGranted |-> 0, modeChanges |-> 0],
   created |-> now,
   lastModeChange |-> now,
   lastActivity |-> now]

\* getOrCreateState: the state of the session, and the Map after the call
getOrCreateState(sessionID) ==
  IF sessions[sessionID] # NoState THEN sessions[sessionID] ELSE NewState(sessionID)

\* a variant of the record that leaves the background tasks out
Serializable_WithoutTasks(state) ==
  [state EXCEPT !.backgroundTasks = <<>>,
                !.pendingApprovals = ArrayFromSet(state.pendingApprovals)]

\* the SerializableAutonomySessionState that persistState writes
Serializable(state) ==
  [state EXCEPT !.backgroundTasks = MapEntries(state.backgroundTasks),
                !.pendingApprovals = ArrayFromSet(state.pendingApprovals)]

\* the AutonomySessionState that loadState builds from a parsed record
Deserialized(serializable) ==
  [serializable EXCEPT !.backgroundTasks = NewMap(serializable.backgroundTasks),
                       !.pendingApprovals = NewSet(serializable.pendingApprovals)]

\* persistState: the file after the call; a failed write is caught and logged
persistState(state, writeOk) ==
  IF writeOk THEN [disk EXCEPT ![state.sessionID] = Serializable(state)] ELSE disk

\* loadState: null when the file does not exist
loadState(sessionID) ==
  IF disk[sessionID] = NoFile THEN NoState ELSE Deserialized(disk[sessionID])

Init ==
  /\ config \in [defaultLevel : Modes]
  /\ sessions = [s \in SessionIDs |-> NoState]
  /\ disk = [s \in SessionIDs |-> NoFile]
  /\ now = 0
  /\ lastCall = [op |-> "start"]
  /\ baseConfig = NoHook
  /\ sessionAutonomyStore = EmptyMap

(***************************************************************************)
(* "permission.ask"                                                        *)
(***************************************************************************)

\* (input as any).sessionID || "default"
SessionOf(sessionID) == IF Truthy(sessionID) THEN sessionID ELSE "default"

\* tool === "bash" && args.command && isDestructiveCommand(args.command)
DestructiveBash(tool, args) ==
  tool = "bash" /\ Truthy(args.command) /\ isDestructiveCommand(args.command)

\* a variant of the permissive branch that forgets tool === "bash"
PermissiveDecision_AnyTool(tool, args) ==
  IF Truthy(args.command) /\ isDestructiveCommand(args.command) THEN "ask" ELSE "allow"

\* the branch of the hook under mode permissive
PermissiveDecision(tool, args) ==
  IF DestructiveBash(tool, args) THEN "ask" ELSE "allow"

\* a variant of the balanced branch without the gate on planning tasks
BalancedDecision_NoPlanGate(tool, args) ==
  IF isHighRiskTool(tool) THEN "ask"
  ELSE IF DestructiveBash(tool, args) THEN "ask"
  ELSE "allow"

\* the branch of the hook under mode balanced
BalancedDecision(tool, args) ==
  IF tool = "task" /\ args.type = "plan" THEN "ask"
  ELSE IF isHighRiskTool(tool) THEN "ask"
  ELSE IF DestructiveBash(tool, args) THEN "ask"
  ELSE "allow"

\* a variant of the restrictive branch that asks for high-risk tools only
RestrictiveDecision_HighOnly(tool, args) ==
  IF isHighRiskTool(tool) THEN "ask" ELSE "allow"

\* the branch of the hook under mode restrictive
RestrictiveDecision(tool, args) ==
  IF isReadOnlyTool(tool) THEN "allow" ELSE "ask"

\* a mode that is none of the three falls through every branch
UnknownModeDecision == "allow"

\* what the hook decides for a session in the given mode, before any failure
Decision(mode, tool, args) ==
  IF mode = "permissive" THEN PermissiveDecision(tool, args)
  ELSE IF mode = "balanced" THEN BalancedDecision(tool, args)
  ELSE IF mode = "restrictive" THEN RestrictiveDecision(tool, args)
  ELSE UnknownModeDecision

\* a variant of the bookkeeping of ask that does not count the request
RecordAsk_NotCounted(state, tool, callID) ==
  [state EXCEPT !.pendingApprovals = SetAdd(@, IF Truthy(callID) THEN callID ELSE tool)]

\* output.status = "ask"; approvalsRequested++; pendingApprovals.add(callID || tool)
RecordAsk(state, tool, callID) ==
  [state EXCEPT !.metrics.approvalsRequested = @ + 1,
                !.pendingApprovals = SetAdd(@, IF Truthy(callID) THEN callID ELSE tool)]

\* a variant of the catch block that fails open
CatchStatus_FailOpen == "allow"

\* catch (error) { output.status = "ask" }
CatchStatus == "ask"

\* what lastCall keeps of a call of the hook: the session it ran on, the tool, its
\* arguments and call id, the status in output when it returned, whether the
\* catch ran
AskReturned(sessionID, input, status, thrown) ==
  [op |-> "permission.ask", sessionID |-> sessionID, tool |-> input.tool,
   args |-> input.args, callID |-> input.callID, status |-> status,
   thrown |-> thrown]

\* a variant of the hook that counts the request before it branches on the mode
PermissionAsk_CountsFirst(input, preset, writeOk) ==
  LET sessionID == SessionOf(input.sessionID)
      state == sessions[sessionID]
      decision == Decision(state.currentMode, input.tool, input.args)
      counted == [state EXCEPT !.metrics.approvalsRequested = @ + 1]
  IN /\ UNCHANGED <<config, baseConfig, sessionAutonomyStore, now>>
     /\ IF state = NoState
        THEN /\ lastCall' = AskReturned(sessionID, input, preset, FALSE)
             /\ UNCHANGED <<sessions, disk>>
        ELSE IF state.metrics = NoMetrics
        THEN /\ lastCall' = AskReturned(sessionID, input, CatchStatus, TRUE)
             /\ UNCHANGED <<sessions, disk>>
        ELSE IF decision = "allow"
        THEN /\ lastCall' = AskReturned(sessionID, input, "allow", FALSE)
             /\ sessions' = [sessions EXCEPT ![sessionID] = counted]
             /\ UNCHANGED disk
        ELSE /\ lastCall' = AskReturned(sessionID, input, "ask", FALSE)
             /\ sessions' = [sessions EXCEPT
                               ![sessionID] = RecordAsk(state, input.tool, input.callID)]
             /\ disk' = persistState(RecordAsk(state, input.tool, input.callID), writeOk)

\* The hook.  input = [sessionID, tool, args, callID]; preset is the status the
\* host put in output before the call; writeOk: the write of persistState succeeds.
PermissionAsk(input, preset, writeOk) ==
  LET sessionID == SessionOf(input.sessionID)
      state == sessions[sessionID]
      decision == Decision(state.currentMode, input.tool, input.args)
  IN /\ UNCHANGED <<config, baseConfig, sessionAutonomyStore, now>>
     /\ IF state = NoState
        THEN \* returns without touching output
             /\ lastCall' = AskReturned(sessionID, input, preset, FALSE)
             /\ UNCHANGED <<sessions, disk>>
        ELSE IF decision = "allow"
        THEN /\ lastCall' = AskReturned(sessionID, input, "allow", FALSE)
             /\ UNCHANGED <<sessions, disk>>
        ELSE IF state.metrics = NoMetrics
        THEN \* state.metrics.approvalsRequested++ throws; the catch block asks
             /\ lastCall' = AskReturned(sessionID, input, CatchStatus, TRUE)
             /\ UNCHANGED <<sessions, disk>>
        ELSE /\ lastCall' = AskReturned(sessionID, input, "ask", FALSE)
             /\ sessions' = [sessions EXCEPT
                               ![sessionID] = RecordAsk(state, input.tool, input.callID)]
             /\ disk' = persistState(RecordAsk(state, input.tool, input.callID), writeOk)

(***************************************************************************)
(* "chat.message"                                                          *)
(***************************************************************************)
permissiveTriggers == <<"ultrawork:", "ulw:", "quick:", "fast:">>
restrictiveTriggers == <<"careful:", "verify:", "safe:", "production:">>

\* the keywords of the two replace() patterns
permissiveKeywords == <<"ultrawork", "ulw", "quick", "fast">>
restrictiveKeywords == <<"careful", "verify", "safe", "production">>

\* the message has no part of type text
NoTextPart == "<no text part>"

\* (firstTextPart.text || "").trim()
TrimmedText(text) == IF Truthy(text) THEN Trim(Chars[text]) ELSE <<>>

\* triggers.find(trigger => lowerText.startsWith(trigger)) !== undefined
TriggerMatch(triggers, lowerText) ==
  \E i \in DOMAIN triggers : StartsWith(lowerText, Chars[triggers[i]])

\* a variant of the replacement whose pattern is /^(k1|k2|k3|k4):\s?/i
StripKeyword_OneSpace(text, keywords) ==
  LET afterKeyword == UNION {Lit(text, {1}, Chars[keywords[i]], TRUE) : i \in DOMAIN keywords}
      afterColon == Lit(text, afterKeyword, <<":">>, FALSE)
      ends == {e \in afterColon : e > Len(text) \/ ~InClass("IsSpace", text[e])}
                \cup {e + 1 : e \in {f \in afterColon : f <= Len(text)
                                                          /\ InClass("IsSpace", text[f])}}
  IN IF ends = {} THEN text
     ELSE SubSeq(text, CHOOSE e \in ends : \A f \in ends : f <= e, Len(text))

\* text.replace(/^(k1|k2|k3|k4):\s*/i, ''): \s* is greedy
StripKeyword(text, keywords) ==
  LET afterKeyword == UNION {Lit(text, {1}, Chars[keywords[i]], TRUE) : i \in DOMAIN keywords}
      ends == Star(text, Lit(text, afterKeyword, <<":">>, FALSE), "IsSpace")
  IN IF ends = {} THEN text
     ELSE SubSeq(text, CHOOSE e \in ends : \A f \in ends : f <= e, Len(text))

\* a variant of the resolution that ignores the session override
SessionOrDefault_DefaultOnly(state) == state.defaultMode

\* state.sessionOverride || state.defaultMode
SessionOrDefault(state) ==
  IF state.sessionOverride # Null THEN state.sessionOverride ELSE state.defaultMode

\* firstTextPart.text after the hook: replaced only when a trigger matched
TextAfter(text) ==
  LET trimmed == TrimmedText(text)
      lowerText == ToLowerCase(trimmed)
      afterPermissive ==
        IF TriggerMatch(permissiveTriggers, lowerText)
        THEN StripKeyword(trimmed, permissiveKeywords)
        ELSE Chars[text]
  IN IF TriggerMatch(restrictiveTriggers, lowerText)
     THEN StripKeyword(trimmed, restrictiveKeywords)
     ELSE afterPermissive

\* the state after the hook has run on a message whose first text part is text
MessageState(state, text) ==
  LET reset == [state EXCEPT !.keywordOverride = Null]
      lowerText == ToLowerCase(TrimmedText(text))
      afterPermissive ==
        IF TriggerMatch(permissiveTriggers, lowerText)
        THEN [reset EXCEPT !.keywordOverride = "permissive", !.currentMode = "permissive"]
        ELSE reset
      afterRestrictive ==
        IF TriggerMatch(restrictiveTriggers, lowerText)
        THEN [afterPermissive EXCEPT !.keywordOverride = "restrictive",
                                     !.currentMode = "restrictive"]
        ELSE afterPermissive
      resolved ==
        IF afterRestrictive.keywordOverride = Null
        THEN [afterRestrictive EXCEPT !.currentMode = SessionOrDefault(afterRestrictive)]
        ELSE afterRestrictive
  IN IF text = NoTextPart
     THEN [reset EXCEPT !.currentMode = SessionOrDefault(reset), !.lastActivity = now]
     ELSE [resolved EXCEPT !.lastActivity = now]

\* a variant of the hook that keeps the new state only when it was written
ChatMessage_KeptWhenWritten(sessionID, text, writeOk) ==
  LET state == MessageState(getOrCreateState(sessionID), text)
  IN /\ sessions' = IF writeOk THEN [sessions EXCEPT ![sessionID] = state] ELSE sessions
     /\ disk' = persistState(state, writeOk)
     /\ lastCall' = [op |-> "chat.message", sessionID |-> sessionID, text |-> text,
                     textAfter |-> IF text = NoTextPart THEN <<>> ELSE TextAfter(text)]
     /\ UNCHANGED <<config, baseConfig, sessionAutonomyStore, now>>

\* The hook on a message of session sessionID whose first text part is text.
ChatMessage(sessionID, text, writeOk) ==
  LET state == MessageState(getOrCreateState(sessionID), text)
  IN /\ sessions' = [sessions EXCEPT ![sessionID] = state]
     /\ disk' = persistState(state, writeOk)
     /\ lastCall' = [op |-> "chat.message", sessionID |-> sessionID, text |-> text,
                     textAfter |-> IF text = NoTextPart THEN <<>> ELSE TextAfter(text)]
     /\ UNCHANGED <<config, baseConfig, sessionAutonomyStore, now>>

(***************************************************************************)
(* tool autonomy_control                                                   *)
(***************************************************************************)

\* formatCurrentMode: the Override line
OverrideStatus(state) ==
  IF state.sessionOverride # Null THEN "Session override active"
  ELSE IF state.keywordOverride # Null THEN "Keyword override active"
  ELSE "Using default"

\* formatDetailedStatus: overrideInfo
OverrideInfo(state) ==
  IF state.sessionOverride # Null THEN "Session"
  ELSE IF state.keywordOverride # Null THEN "Keyword"
  ELSE "None"

\* a variant of the tool that counts a set before it validates the mode
AutonomyControl_CountsAttempts(conv, args, writeOk) ==
  LET sessionID == "default"
      state == getOrCreateState(sessionID)
      counted == IF args.action = "set" /\ state.metrics # NoMetrics
                 THEN [state EXCEPT !.metrics.modeChanges = @ + 1]
                 ELSE state
      result == IF args.action # "set" THEN "Error: Unknown action"
                ELSE IF ~Truthy(args.mode)
                THEN "Error: mode is required when action is 'set'"
                ELSE IF args.mode \notin Modes THEN "Error: Invalid mode"
                ELSE "Mode changed"
  IN /\ UNCHANGED <<config, baseConfig, sessionAutonomyStore, now, disk>>
     /\ lastCall' = [op |-> "autonomy_control", conv |-> conv, args |-> args,
                     result |-> result]
     /\ sessions' = [sessions EXCEPT ![sessionID] = counted]

\* The tool, called from conversation conv with args = [action, mode].  The
\* session it works on is always "default".
AutonomyControl(conv, args, writeOk) ==
  LET sessionID == "default"
      state == getOrCreateState(sessionID)
      assigned == [state EXCEPT !.sessionOverride = args.mode,
                                !.currentMode = args.mode,
                                !.lastModeChange = now]
      changed == [assigned EXCEPT !.metrics.modeChanges = @ + 1,
                                  !.maxConcurrentTasks = getMaxTasks(args.mode)]
      Return(result, newState, newDisk) ==
        /\ lastCall' = [op |-> "autonomy_control", conv |-> conv, args |-> args,
                        result |-> result]
        /\ sessions' = [sessions EXCEPT ![sessionID] = newState]
        /\ disk' = newDisk
  IN /\ UNCHANGED <<config, baseConfig, sessionAutonomyStore, now>>
     /\ IF args.action = "set"
        THEN IF ~Truthy(args.mode)
             THEN Return("Error: mode is required when action is 'set'", state, disk)
             ELSE IF args.mode \notin Modes
             THEN Return("Error: Invalid mode", state, disk)
             ELSE IF state.metrics = NoMetrics
             THEN \* state.metrics.modeChanges++ throws after the mode is assigned
                  Return("Error: TypeError", assigned, disk)
             ELSE Return("Mode changed", changed, persistState(changed, writeOk))
        ELSE IF args.action = "get"
        THEN IF state.currentMode \in Modes
             THEN Return(OverrideStatus(state), state, disk)
             ELSE \* getModeEmoji throws on a mode the configuration does not have
                  Return("Error: TypeError", state, disk)
        ELSE IF args.action = "status"
        THEN IF state.currentMode \in Modes
             THEN Return(OverrideInfo(state), state, disk)
             ELSE Return("Error: TypeError", state, disk)
        ELSE Return("Error: Unknown action", state, disk)

(***************************************************************************)
(* "tool.execute.before" and "tool.execute.after"                          *)
(***************************************************************************)

\* Array.from(state.backgroundTasks.values()).filter(t => t.status === "running")
runningTasks(state) ==
  {k \in DOMAIN state.backgroundTasks.at : state.backgroundTasks.at[k].status = "running"}

\* (input as any).callID || `${tool}-${Date.now()}`
TaskIDOf(input) ==
  IF Truthy(input.callID) THEN input.callID ELSE input.tool \o "-" \o ToString(now)

\* a variant of the limit test that warns only above the cap
LimitReached_Above(state) ==
  Cardinality(runningTasks(state)) > state.maxConcurrentTasks

\* runningTasks.length >= state.maxConcurrentTasks
LimitReached(state) ==
  Cardinality(runningTasks(state)) >= state.maxConcurrentTasks

\* what lastCall keeps of a call of the hook
BeforeReturned(sessionID, input, warned) ==
  [op |-> "tool.execute.before", sessionID |-> sessionID, tool |-> input.tool,
   callID |-> input.callID, background |-> input.background, warned |-> warned]

\* input = [sessionID, tool, callID, background]
ToolExecuteBefore(input) ==
  LET sessionID == SessionOf(input.sessionID)
      state == sessions[sessionID]
      taskID == TaskIDOf(input)
      task == [taskID |-> taskID, tool |-> input.tool, status |-> "running",
               startTime |-> now]
  IN /\ UNCHANGED <<config, baseConfig, sessionAutonomyStore, now, disk>>
     /\ IF state = NoState \/ ~input.background
        THEN /\ UNCHANGED sessions
             /\ lastCall' = BeforeReturned(sessionID, input, FALSE)
        ELSE /\ sessions' = [sessions EXCEPT ![sessionID].backgroundTasks =
                               MapSet(@, taskID, task)]
             /\ lastCall' = BeforeReturned(sessionID, input, LimitReached(state))

\* a variant of the cap that keeps the first entries
PushHistory_KeepsOldest(history, record) ==
  LET pushed == Append(history, record)
  IN IF Len(pushed) > HistoryLimit THEN SubSeq(pushed, 1, HistoryLimit) ELSE pushed

\* state.approvalHistory.push(record), then slice(-50) when longer than 50
PushHistory(history, record) ==
  LET pushed == Append(history, record)
  IN IF Len(pushed) > HistoryLimit
     THEN SubSeq(pushed, Len(pushed) - HistoryLimit + 1, Len(pushed))
     ELSE pushed

\* a variant of the outcome that moves both counters
RecordOutcome_BothCounters(state, tool, callID, approved) ==
  [state EXCEPT
     !.pendingApprovals = SetDelete(@, callID),
     !.metrics = [@ EXCEPT !.approvalsGranted = @ + 1, !.toolCallsBlocked = @ + 1],
     !.approvalHistory = PushHistory(@, [timestamp |-> now, tool |-> tool,
                                          approved |-> approved,
                                          mode |-> state.currentMode])]

\* a variant of the outcome that leaves the id pending
RecordOutcome_StaysPending(state, tool, callID, approved) ==
  [state EXCEPT
     !.metrics = IF approved THEN [@ EXCEPT !.approvalsGranted = @ + 1]
                 ELSE [@ EXCEPT !.toolCallsBlocked = @ + 1],
     !.approvalHistory = PushHistory(@, [timestamp |-> now, tool |-> tool,
                                          approved |-> approved,
                                          mode |-> state.currentMode])]

\* the approval outcome of a pending call: counters and history
RecordOutcome(state, tool, callID, approved) ==
  [state EXCEPT
     !.pendingApprovals = SetDelete(@, callID),
     !.metrics = IF approved THEN [@ EXCEPT !.approvalsGranted = @ + 1]
                 ELSE [@ EXCEPT !.toolCallsBlocked = @ + 1],
     !.approvalHistory = PushHistory(@, [timestamp |-> now, tool |-> tool,
                                          approved |-> approved,
                                          mode |-> state.currentMode])]

\* task.status = error ? "error" : "completed"; task.endTime = Date.now()
CompleteTask(state, taskID, error) ==
  IF MapHas(state.backgroundTasks, taskID)
  THEN [state EXCEPT !.backgroundTasks.at[taskID] =
          [taskID |-> @.taskID, tool |-> @.tool,
           status |-> IF error THEN "error" ELSE "completed",
           startTime |-> @.startTime, endTime |-> now]]
  ELSE state

\* a variant of the test that tracks every call
Tracked_EveryCall(state, callID) == TRUE

\* callID && state.pendingApprovals.has(callID)
Tracked(state, callID) == Truthy(callID) /\ SetHas(state.pendingApprovals, callID)

\* what lastCall keeps of a call of the hook; again: the hook call before this
\* one was the same callback for the same call
AfterReturned(sessionID, input, error, tracked) ==
  [op |-> "tool.execute.after", sessionID |-> sessionID, tool |-> input.tool,
   callID |-> input.callID, error |-> error, tracked |-> tracked,
   again |-> /\ lastCall.op = "tool.execute.after"
             /\ lastCall.sessionID = sessionID
             /\ lastCall.callID = input.callID
             /\ lastCall.tool = input.tool]

\* input = [sessionID, tool, callID]; error: output.error is set
ToolExecuteAfter(input, error, writeOk) ==
  LET sessionID == SessionOf(input.sessionID)
      state == sessions[sessionID]
      callID == input.callID
      tracked == state # NoState /\ Tracked(state, callID)
      recorded == RecordOutcome(state, input.tool, callID, ~error)
  IN /\ UNCHANGED <<config, baseConfig, sessionAutonomyStore, now>>
     /\ lastCall' = AfterReturned(sessionID, input, error, tracked)
     /\ IF state = NoState
        THEN UNCHANGED <<sessions, disk>>
        ELSE IF tracked /\ state.metrics = NoMetrics
        THEN \* the counter increment throws after the id was deleted
             /\ sessions' = [sessions EXCEPT ![sessionID].pendingApprovals =
                               SetDelete(@, callID)]
             /\ UNCHANGED disk
        ELSE IF tracked
        THEN /\ sessions' = [sessions EXCEPT
                               ![sessionID] = CompleteTask(recorded, callID, error)]
             /\ disk' = persistState(recorded, writeOk)
        ELSE /\ sessions' = [sessions EXCEPT
                               ![sessionID] = CompleteTask(state, callID, error)]
             /\ UNCHANGED disk

(***************************************************************************)
(* event                                                                   *)
(***************************************************************************)

\* event.type === "session.created"
SessionCreated(sessionID, writeOk) ==
  LET loadedState == loadState(sessionID)
      state == getOrCreateState(sessionID)
  IN /\ UNCHANGED <<config, baseConfig, sessionAutonomyStore, now>>
     /\ lastCall' = [op |-> "session.created", sessionID |-> sessionID,
                     restored |-> loadedState # NoState]
     /\ IF loadedState # NoState
        THEN /\ sessions' = [sessions EXCEPT ![sessionID] = loadedState]
             /\ UNCHANGED disk
        ELSE /\ sessions' = [sessions EXCEPT ![sessionID] = state]
             /\ disk' = persistState(state, writeOk)

\* event.type === "session.deleted"
SessionDeleted(sessionID) ==
  LET state == sessions[sessionID]
  IN /\ UNCHANGED <<config, baseConfig, sessionAutonomyStore, now, disk>>
     /\ lastCall' = [op |-> "session.deleted", sessionID |-> sessionID]
     /\ IF state # NoState /\ state.metrics # NoMetrics
        THEN sessions' = [sessions EXCEPT ![sessionID] = NoState]
        ELSE \* no state, or the metrics log throws before sessions.delete
             UNCHANGED sessions

\* event.type === "message.updated"
MessageUpdated(sessionID) ==
  /\ UNCHANGED <<config, baseConfig, sessionAutonomyStore, now, disk>>
  /\ lastCall' = [op |-> "message.updated", sessionID |-> sessionID]
  /\ IF sessions[sessionID] # NoState
     THEN sessions' = [sessions EXCEPT ![sessionID].lastActivity = now]
     ELSE UNCHANGED sessions

\* time passes
Tick ==
  /\ now < MaxTime
  /\ now' = now + 1
  /\ lastCall' = [op |-> "tick"]
  /\ UNCHANGED <<config, baseConfig, sessionAutonomyStore, sessions, disk>>

(***************************************************************************)
(* The inputs of the hooks                                                 *)
(***************************************************************************)
NoArgs == [command |-> Undefined, type |-> Undefined]

\* tool calls: a read-only tool, a high-risk tool, the shell with no command, a
\* harmless and a destructive one, a task with and without type plan, a fetch,
\* a tool in no list, and the shell under another letter-casing
Requests ==
  {[tool |-> "read", args |-> NoArgs],
   [tool |-> "write", args |-> NoArgs],
   [tool |-> "bash", args |-> NoArgs],
   [tool |-> "bash", args |-> [command |-> "ls -la", type |-> Undefined]],
   [tool |-> "bash", args |-> [command |-> "rm -rf /tmp/x", type |-> Undefined]],
   [tool |-> "task", args |-> [command |-> Undefined, type |-> "plan"]],
   [tool |-> "task", args |-> NoArgs],
   [tool |-> "fetch", args |-> [command |-> "rm -rf /tmp/x", type |-> Undefined]],
   [tool |-> "mystery", args |-> NoArgs],
   [tool |-> "Bash", args |-> [command |-> "rm -rf /tmp/x", type |-> Undefined]]}

PermissionInputs(sessionIDs, requests, callIDs) ==
  {[sessionID |-> s, tool |-> r.tool, args |-> r.args, callID |-> c] :
     s \in sessionIDs, r \in requests, c \in callIDs}

\* the status the host puts in output before it calls the hook
Presets == {"ask", "allow", "deny", Undefined}

Messages == {"ulw: go", " Quick:  fix", "careful: x", "SAFE:y", "hello", "fast go",
             "go ulw: x", "", NoTextPart}

ControlArgs ==
  {[action |-> "set", mode |-> m] : m \in Modes \cup {Undefined, "turbo"}}
    \cup {[action |-> a, mode |-> Undefined] : a \in {"get", "reset"}}

ExecuteInputs(sessionIDs, tools, callIDs) ==
  {[sessionID |-> s, tool |-> t, callID |-> c] :
     s \in sessionIDs, t \in tools, c \in callIDs}

BeforeInputs(sessionIDs, tools, callIDs) ==
  {[sessionID |-> i.sessionID, tool |-> i.tool, callID |-> i.callID, background |-> b] :
     i \in ExecuteInputs(sessionIDs, tools, callIDs), b \in BOOLEAN}

\* a session record stays within the bounds of the model
Bounded(state) ==
  state # NoState /\ state.metrics # NoMetrics =>
    /\ state.metrics.approvalsRequested <= MaxRequested
    /\ state.metrics.modeChanges <= MaxModeChanges
    /\ Len(state.backgroundTasks.order) <= MaxTasks

WithinBounds == \A s \in SessionIDs : Bounded(sessions[s])'

\* output.status is read only when the session has no state
PresetsFor(input) ==
  IF sessions[SessionOf(input.sessionID)] = NoState THEN Presets ELSE {"ask"}

(***************************************************************************)
(* Mode resolution and gating in one conversation, whose id is "default":  *)
(* the tool, the message hook, the permission hook and the session events  *)
(***************************************************************************)
CoreRequests ==
  {r \in Requests : r.tool \in {"read", "write"}
                    \/ (r.tool = "bash" /\ r.args.command = "rm -rf /tmp/x")}

CoreSessions == {"default", Undefined}

CoreCallIDs == {"c1", Undefined}

Next ==
  \/ \E input \in PermissionInputs(CoreSessions, CoreRequests, CoreCallIDs) :
       \E preset \in PresetsFor(input) :
         PermissionAsk(input, preset, TRUE) /\ WithinBounds
  \/ \E text \in Messages : ChatMessage("default", text, TRUE)
  \/ \E args \in ControlArgs : AutonomyControl("default", args, TRUE) /\ WithinBounds
  \/ SessionCreated("default", TRUE)
  \/ SessionDeleted("default")
  \/ MessageUpdated("default")

Spec == Init /\ [][Next]_vars

(***************************************************************************)
(* The decision tables: every tool call under every mode                   *)
(***************************************************************************)
SetArgs == {[action |-> "set", mode |-> m] : m \in Modes}

NextGate ==
  \/ \E input \in PermissionInputs({Undefined}, Requests, CallIDs) :
       \E preset \in PresetsFor(input) :
         PermissionAsk(input, preset, TRUE) /\ WithinBounds
  \/ \E text \in {"ulw: go", "hello"} : ChatMessage("default", text, TRUE)
  \/ \E args \in SetArgs : AutonomyControl("default", args, TRUE) /\ WithinBounds

SpecGate == Init /\ [][NextGate]_vars

(***************************************************************************)
(* Two conversations and the clock                                         *)
(***************************************************************************)
NextTwo ==
  \/ \E input \in PermissionInputs(Conversations, {[tool |-> "write", args |-> NoArgs]},
                                   {"c1"}) :
       \E preset \in PresetsFor(input) :
         PermissionAsk(input, preset, TRUE) /\ WithinBounds
  \/ \E sessionID \in Conversations, text \in {"ulw: go", "hello"} :
       ChatMessage(sessionID, text, TRUE)
  \/ \E conv \in Conversations, args \in SetArgs :
       AutonomyControl(conv, args, TRUE) /\ WithinBounds
  \/ Tick

SpecTwo == Init /\ [][NextTwo]_vars

(***************************************************************************)
(* A durable record that something else than the plugin has written        *)
(***************************************************************************)

\* the record of the session keeps its shape but loses its metrics, or carries
\* a mode the plugin does not know
CorruptRecord(sessionID) ==
  /\ disk[sessionID] # NoFile
  /\ \/ disk' = [disk EXCEPT ![sessionID].metrics = NoMetrics]
     \/ disk' = [disk EXCEPT ![sessionID].currentMode = "turbo"]
  /\ lastCall' = [op |-> "corrupt", sessionID |-> sessionID]
  /\ UNCHANGED <<config, baseConfig, sessionAutonomyStore, sessions, now>>

NextCorrupt ==
  \/ \E input \in PermissionInputs({Undefined}, CoreRequests, CoreCallIDs) :
       \E preset \in PresetsFor(input) :
         PermissionAsk(input, preset, TRUE) /\ WithinBounds
  \/ \E text \in {"ulw: go", "hello"} : ChatMessage("default", text, TRUE)
  \/ \E args \in ControlArgs : AutonomyControl("default", args, TRUE) /\ WithinBounds
  \/ SessionCreated("default", TRUE)
  \/ SessionDeleted("default")
  \/ CorruptRecord("default")

SpecCorrupt == Init /\ [][NextCorrupt]_vars

(***************************************************************************)
(* Gated calls and their outcomes in one conversation                      *)
(***************************************************************************)

\* three tool calls of the host: a call keeps its tool and its id from the
\* permission check to the end of its execution; the third has no id
OutcomeCalls ==
  {[tool |-> "write", callID |-> "c1"],
   [tool |-> "task", callID |-> "c2"],
   [tool |-> "write", callID |-> Undefined]}

AskInputs(calls) ==
  {[sessionID |-> Undefined, tool |-> c.tool, args |-> NoArgs, callID |-> c.callID] :
     c \in calls}

AfterInputs(calls) ==
  {[sessionID |-> Undefined, tool |-> c.tool, callID |-> c.callID] : c \in calls}

NextOutcome ==
  \/ \E input \in AskInputs(OutcomeCalls) :
       \E preset \in PresetsFor(input) :
         PermissionAsk(input, preset, TRUE) /\ WithinBounds
  \/ \E input \in AfterInputs(OutcomeCalls), error \in BOOLEAN :
       ToolExecuteAfter(input, error, TRUE)
  \/ \E text \in {"careful: x", "hello"} : ChatMessage("default", text, TRUE)
  \/ \E args \in SetArgs : AutonomyControl("default", args, TRUE) /\ WithinBounds

SpecOutcome == Init /\ [][NextOutcome]_vars

(***************************************************************************)
(* One gated call in a conversation that is closed and opened again, with  *)
(* writes of the durable record that can fail                              *)
(***************************************************************************)
RestoreCalls == {[tool |-> "write", callID |-> "c1"]}

NextRestore ==
  \/ \E input \in AskInputs(RestoreCalls), writeOk \in BOOLEAN :
       \E preset \in PresetsFor(input) :
         PermissionAsk(input, preset, writeOk) /\ WithinBounds
  \/ \E input \in AfterInputs(RestoreCalls), error \in BOOLEAN, writeOk \in BOOLEAN :
       ToolExecuteAfter(input, error, writeOk)
  \/ \E writeOk \in BOOLEAN : ChatMessage("default", "careful: x", writeOk)
  \/ \E writeOk \in BOOLEAN : SessionCreated("default", writeOk)
  \/ SessionDeleted("default")

SpecRestore == Init /\ [][NextRestore]_vars

(***************************************************************************)
(* A long run of gated calls: one call is asked for and finishes, again    *)
(* and again, while the clock moves                                        *)
(***************************************************************************)
NextHistory ==
  \/ \E input \in AskInputs(RestoreCalls) :
       \E preset \in PresetsFor(input) :
         /\ PermissionAsk(input, preset, TRUE)
         /\ sessions'["default"] # NoState =>
              sessions'["default"].metrics.approvalsRequested <= MaxOutcomes
  \/ \E input \in AfterInputs(RestoreCalls) : ToolExecuteAfter(input, FALSE, TRUE)
  \/ SessionCreated("default", TRUE)
  \/ Tick

SpecHistory == Init /\ [][NextHistory]_vars

\* background tasks up to the cap and one beyond it: the host numbers its
\* calls, a call may come without id, and the id of the first call may be
\* delivered again
BackgroundCalls(state) ==
  LET started == IF state = NoState THEN 0 ELSE Len(state.backgroundTasks.order)
  IN {"t1", "t" \o ToString(started + 1), Undefined}

BackgroundInputs(state) ==
  {[sessionID |-> Undefined, tool |-> "task", callID |-> c, background |-> b] :
     c \in BackgroundCalls(state), b \in BOOLEAN}

NextBackground ==
  \/ \E input \in BackgroundInputs(sessions["default"]) :
       /\ ToolExecuteBefore(input)
       /\ sessions'["default"] # NoState =>
            Len(sessions'["default"].backgroundTasks.order) <= MaxBackground
  \/ \E input \in AfterInputs({[tool |-> "task", callID |-> "t1"],
                               [tool |-> "task", callID |-> "t2"]}) :
       ToolExecuteAfter(input, FALSE, TRUE)
  \/ \E args \in SetArgs :
       /\ AutonomyControl("default", args, TRUE)
       /\ sessions'["default"].metrics.modeChanges <= MaxModeChanges

SpecBackground == Init /\ [][NextBackground]_vars

\* one gated call that also runs in the background, with every hook that
\* writes or reads the durable record; no write fails
DurableCalls == {[tool |-> "task", callID |-> "c1"]}

DurableBeforeInputs ==
  {[sessionID |-> Undefined, tool |-> c.tool, callID |-> c.callID, background |-> b] :
     c \in DurableCalls, b \in BOOLEAN}

NextDurable ==
  \/ \E input \in AskInputs(DurableCalls) :
       \E preset \in PresetsFor(input) :
         PermissionAsk(input, preset, TRUE) /\ WithinBounds
  \/ \E input \in DurableBeforeInputs : ToolExecuteBefore(input) /\ WithinBounds
  \/ \E input \in AfterInputs(DurableCalls), error \in BOOLEAN :
       ToolExecuteAfter(input, error, TRUE)
  \/ ChatMessage("default", "careful: x", TRUE)
  \/ \E args \in {[action |-> "set", mode |-> "permissive"],
                   [action |-> "get", mode |-> Undefined]} :
       AutonomyControl("default", args, TRUE) /\ WithinBounds
  \/ SessionCreated("default", TRUE)
  \/ SessionDeleted("default")

SpecDurable == Init /\ [][NextDurable]_vars

\* every callback that writes the durable record, with writes that succeed
\* and writes that fail
SetRestrictive == [action |-> "set", mode |-> "restrictive"]

NextFailure ==
  \/ \E input \in AskInputs(RestoreCalls), writeOk \in BOOLEAN :
       \E preset \in PresetsFor(input) :
         PermissionAsk(input, preset, writeOk) /\ WithinBounds
  \/ \E input \in AfterInputs(RestoreCalls), error \in BOOLEAN, writeOk \in BOOLEAN :
       ToolExecuteAfter(input, error, writeOk)
  \/ \E writeOk \in BOOLEAN : ChatMessage("default", NoTextPart, writeOk)
  \/ \E writeOk \in BOOLEAN :
       AutonomyControl("default", SetRestrictive, writeOk) /\ WithinBounds
  \/ \E writeOk \in BOOLEAN : SessionCreated("default", writeOk)
  \/ ChatMessage("s1", "hello", TRUE)

SpecFailure == Init /\ [][NextFailure]_vars

\* messages with and without a keyword, in several letter-casings, with
\* whitespace before the keyword, after the separator and at the end, and
\* with a keyword of each group
KeywordMessages ==
  {"ulw: go", " Quick:  fix", "careful: x", "SAFE:y", "hello", "fast go",
   "go ulw: x", "", NoTextPart, "ulw: go ", "ulw: careful: x",
   "Production:   deploy now", " hi "}

\* the two read-only queries of the tool
QueryArgs == {[action |-> a, mode |-> Undefined] : a \in {"get", "status"}}

NextMessage ==
  \/ \E text \in KeywordMessages : ChatMessage("default", text, TRUE)
  \/ \E args \in SetArgs : AutonomyControl("default", args, TRUE) /\ WithinBounds
  \/ \E args \in QueryArgs : AutonomyControl("default", args, TRUE)

SpecMessage == Init /\ [][NextMessage]_vars

(***************************************************************************)
(* Properties                                                              *)
(***************************************************************************)

\* the mode a message asks for with its leading keyword, letter case and the
\* white space around the text put aside; Null when it has none
LeadingKeyword ==
  "ulw: go" :> "permissive" @@ " Quick:  fix" :> "permissive" @@
  "careful: x" :> "restrictive" @@ "SAFE:y" :> "restrictive" @@
  "hello" :> Null @@ "fast go" :> Null @@ "go ulw: x" :> Null @@ "" :> Null @@
  NoTextPart :> Null

\* messageOverride ?? sessionOverride ?? defaultMode
Resolved(keyword, state) ==
  IF keyword # Null THEN keyword
  ELSE IF state.sessionOverride # Null THEN state.sessionOverride
  ELSE state.defaultMode

C2_ModeIsResolvedAtCheck ==
  lastCall.op = "permission.ask" /\ sessions[lastCall.sessionID] # NoState =>
    LET state == sessions[lastCall.sessionID]
    IN /\ state.currentMode \in Modes
       /\ state.currentMode = Resolved(state.keywordOverride, state)

\* a permission check decided under restrictive while the message's keyword
\* override is permissive
C2_CheckedAgainstKeyword ==
  /\ lastCall.op = "permission.ask"
  /\ sessions["default"] # NoState
  /\ sessions["default"].keywordOverride = "permissive"
  /\ sessions["default"].currentMode = "restrictive"
  /\ lastCall.status = "ask"
  /\ lastCall.tool = "write"

\* C3: after a set of the mode to m that succeeded for conversation c, the
\* record of c has session override m and current mode m.
C3_SetModeKeyedByConversation ==
  /\ lastCall.op = "autonomy_control"
  /\ lastCall.args.action = "set"
  /\ lastCall.result = "Mode changed"
  => LET state == sessions[lastCall.conv]
     IN /\ state # NoState
        /\ state.sessionOverride = lastCall.args.mode
        /\ state.currentMode = lastCall.args.mode

\* a set from conversation s1 that changed the record of "default" and left s1
\* without one
C3_SetFromOtherConversation ==
  /\ lastCall.op = "autonomy_control"
  /\ lastCall.conv = "s1"
  /\ lastCall.result = "Mode changed"
  /\ sessions["s1"] = NoState
  /\ sessions["default"].sessionOverride = lastCall.args.mode

\* the mode under which the last permission check was decided
CheckedUnder(mode) ==
  /\ lastCall.op = "permission.ask"
  /\ sessions[lastCall.sessionID] # NoState
  /\ sessions[lastCall.sessionID].currentMode = mode

\* C4: under permissive the verdict is ask exactly when the tool is the shell
\* and its command is destructive, and allow otherwise.
C4_PermissiveTable ==
  CheckedUnder("permissive") =>
    lastCall.status =
      IF lastCall.tool = "bash" /\ isDestructiveCommand(lastCall.args.command)
      THEN "ask" ELSE "allow"

C4_PermissiveAsks ==
  /\ CheckedUnder("permissive")
  /\ lastCall.tool = "bash"
  /\ lastCall.args.command = "rm -rf /tmp/x"
  /\ lastCall.status = "ask"

\* C5: under balanced the verdict is ask when the tool is task with type plan,
\* or the tool is high risk, or it is the shell with a destructive command;
\* it is allow otherwise.
C5_BalancedTable ==
  CheckedUnder("balanced") =>
    lastCall.status =
      IF \/ lastCall.tool = "task" /\ lastCall.args.type = "plan"
         \/ getToolRiskLevel(lastCall.tool) = "high"
         \/ lastCall.tool = "bash" /\ isDestructiveCommand(lastCall.args.command)
      THEN "ask" ELSE "allow"

C5_BalancedAsksForPlan ==
  /\ CheckedUnder("balanced")
  /\ lastCall.tool = "task"
  /\ lastCall.args.type = "plan"
  /\ lastCall.status = "ask"

\* C6: under restrictive the verdict is allow exactly when the tool is low
\* risk, and ask otherwise.
C6_RestrictiveTable ==
  CheckedUnder("restrictive") =>
    lastCall.status =
      IF getToolRiskLevel(lastCall.tool) = "low" THEN "allow" ELSE "ask"

C6_RestrictiveAsksForMedium ==
  /\ CheckedUnder("restrictive")
  /\ lastCall.tool = "task"
  /\ lastCall.status = "ask"

\* C7: every permission check of a session with a record that returns ask, the
\* one of the catch block included, adds one to approvalsRequested and leaves
\* the call id of the request in pendingApprovals.
C7_AskIsAccounted ==
  [][lastCall'.op = "permission.ask" /\ lastCall'.status = "ask"
       /\ sessions[lastCall'.sessionID] # NoState
     => LET before == sessions[lastCall'.sessionID]
            after == sessions'[lastCall'.sessionID]
        IN /\ before.metrics # NoMetrics
           /\ after.metrics # NoMetrics
           /\ after.metrics.approvalsRequested = before.metrics.approvalsRequested + 1
           /\ Truthy(lastCall'.callID) => SetHas(after.pendingApprovals, lastCall'.callID)
    ]_vars

\* the catch block has answered ask for a call that is not pending
C7_AskFromCatch ==
  /\ lastCall.op = "permission.ask"
  /\ lastCall.status = "ask"
  /\ lastCall.thrown
  /\ lastCall.callID = "c1"
  /\ ~SetHas(sessions["default"].pendingApprovals, "c1")

\* what a verdict of allow must leave alone
Accounted(state) ==
  <<state.pendingApprovals, state.approvalHistory, state.metrics.toolCallsBlocked,
    state.metrics.approvalsRequested, state.metrics.approvalsGranted,
    state.metrics.modeChanges, state.keywordOverride, state.sessionOverride,
    state.currentMode>>

\* C8: a permission check that returns allow changes none of pendingApprovals,
\* approvalHistory, the four counters, the two overrides and currentMode.
C8_AllowChangesNothing ==
  [][lastCall'.op = "permission.ask" /\ lastCall'.status = "allow"
     => LET before == sessions[lastCall'.sessionID]
            after == sessions'[lastCall'.sessionID]
        IN IF before = NoState THEN after = NoState
           ELSE after # NoState /\ Accounted(after) = Accounted(before)
    ]_vars

\* a request allowed while another one is pending
C8_AllowedWhilePending ==
  /\ lastCall.op = "permission.ask"
  /\ lastCall.status = "allow"
  /\ sessions["default"] # NoState
  /\ sessions["default"].pendingApprovals # <<>>
  /\ sessions["default"].metrics.approvalsRequested > 0

\* C9: a permission check of a session whose currentMode is none of the three
\* modes returns ask.
C9_UnknownModeAsks ==
  /\ lastCall.op = "permission.ask"
  /\ sessions[lastCall.sessionID] # NoState
  /\ sessions[lastCall.sessionID].currentMode \notin Modes
  => lastCall.status = "ask"

\* a high-risk tool allowed under a mode that is none of the three
C9_UnknownModeAllows ==
  /\ lastCall.op = "permission.ask"
  /\ sessions["default"] # NoState
  /\ sessions["default"].currentMode = "turbo"
  /\ lastCall.tool = "bash"
  /\ lastCall.status = "allow"

\* C10: every call of the permission hook, for a session without a record too,
\* returns with the status allow or ask.
C10_VerdictIsAllowOrAsk ==
  lastCall.op = "permission.ask" => lastCall.status \in {"allow", "ask"}

\* the hook has returned for a session without a record with a status of deny
C10_DenyLeftInPlace ==
  /\ lastCall.op = "permission.ask"
  /\ sessions[lastCall.sessionID] = NoState
  /\ lastCall.status = "deny"

\* C11: a permission check during which an exception was thrown still returns,
\* and its status is ask.
C11_FailureAsks ==
  lastCall.op = "permission.ask" /\ lastCall.thrown => lastCall.status = "ask"

\* the check of a write has thrown on a record without metrics
C11_CheckHasThrown ==
  /\ lastCall.op = "permission.ask"
  /\ lastCall.thrown
  /\ lastCall.tool = "write"
  /\ sessions["default"].metrics = NoMetrics
  /\ lastCall.status = "ask"

\* the post-execute callback has just run on a session that has a record
OutcomeStep ==
  /\ lastCall'.op = "tool.execute.after"
  /\ sessions[lastCall'.sessionID] # NoState
  /\ sessions'[lastCall'.sessionID] # NoState

\* the call of that callback was pending before it
WasPending ==
  /\ Truthy(lastCall'.callID)
  /\ SetHas(sessions[lastCall'.sessionID].pendingApprovals, lastCall'.callID)

\* C12: the post-execute callback of a call whose id is pending removes the
\* id, appends one history entry, and moves one counter: approvalsGranted with
\* approved = true when there was no error, else toolCallsBlocked with
\* approved = false.
C12_OutcomeIsRecordedOnce ==
  [][OutcomeStep /\ WasPending
     => LET before == sessions[lastCall'.sessionID]
            after == sessions'[lastCall'.sessionID]
            approved == ~lastCall'.error
            entry == after.approvalHistory[Len(after.approvalHistory)]
        IN /\ ~SetHas(after.pendingApprovals, lastCall'.callID)
           /\ Len(after.pendingApprovals) = Len(before.pendingApprovals) - 1
           /\ Len(after.approvalHistory) = Len(before.approvalHistory) + 1
           /\ SubSeq(after.approvalHistory, 1, Len(before.approvalHistory))
                = before.approvalHistory
           /\ entry.approved = approved
           /\ entry.tool = lastCall'.tool
           /\ after.metrics.approvalsGranted =
                before.metrics.approvalsGranted + (IF approved THEN 1 ELSE 0)
           /\ after.metrics.toolCallsBlocked =
                before.metrics.toolCallsBlocked + (IF approved THEN 0 ELSE 1)
           /\ after.metrics.approvalsRequested = before.metrics.approvalsRequested
           /\ after.metrics.modeChanges = before.metrics.modeChanges
    ]_vars

\* a gated call has failed after another one was granted
C12_BlockedAfterGranted ==
  /\ lastCall.op = "tool.execute.after"
  /\ lastCall.tracked
  /\ lastCall.error
  /\ sessions["default"].metrics.toolCallsBlocked = 1
  /\ sessions["default"].metrics.approvalsGranted = 1
  /\ Len(sessions["default"].approvalHistory) = 2

\* what the outcome of a call is recorded in
Outcomes(state) == <<state.pendingApprovals, state.metrics, state.approvalHistory>>

\* C13: a second post-execute callback for the same call, right after the
\* first, leaves pendingApprovals, the counters and approvalHistory as they are.
C13_SecondDeliveryIsNoOp ==
  [][OutcomeStep /\ lastCall'.again
     => Outcomes(sessions'[lastCall'.sessionID]) = Outcomes(sessions[lastCall'.sessionID])
    ]_vars

\* the callback of a gated call has been delivered twice
C13_DeliveredTwice ==
  /\ lastCall.op = "tool.execute.after"
  /\ lastCall.again
  /\ lastCall.callID = "c1"
  /\ ~lastCall.tracked
  /\ sessions["default"] # NoState
  /\ Len(sessions["default"].approvalHistory) = 1
  /\ sessions["default"].approvalHistory[1].tool = "write"
  /\ sessions["default"].metrics.approvalsGranted
       + sessions["default"].metrics.toolCallsBlocked = 1

\* C14: the post-execute callback of a call whose id is not pending leaves
\* approvalHistory, approvalsGranted, toolCallsBlocked and pendingApprovals as
\* they are, with or without an error.
C14_OnlyGatedCallsAreTracked ==
  [][OutcomeStep /\ ~WasPending
     => LET before == sessions[lastCall'.sessionID]
            after == sessions'[lastCall'.sessionID]
        IN /\ after.approvalHistory = before.approvalHistory
           /\ after.metrics.approvalsGranted = before.metrics.approvalsGranted
           /\ after.metrics.toolCallsBlocked = before.metrics.toolCallsBlocked
           /\ after.pendingApprovals = before.pendingApprovals
    ]_vars

\* an allowed call has failed while another call is pending
C14_AllowedCallFailed ==
  /\ lastCall.op = "tool.execute.after"
  /\ lastCall.callID = "c2"
  /\ lastCall.error
  /\ ~lastCall.tracked
  /\ ~lastCall.again
  /\ sessions["default"] # NoState
  /\ sessions["default"].pendingApprovals = <<"c1">>
  /\ sessions["default"].approvalHistory = <<>>

\* the last n elements of a sequence, all of them when it has fewer
LastOf(seq, n) ==
  LET len == Len(seq)
      kept == IF len < n THEN len ELSE n
  IN [i \in 1..kept |-> seq[len - kept + i]]

\* C15: after every recorded outcome approvalHistory has at most 50 entries:
\* the last 50 of the history before it followed by the new entry, in their
\* order, so that the oldest entries are the ones evicted.
C15_HistoryKeepsLastFifty ==
  [][OutcomeStep /\ WasPending
     => LET before == sessions[lastCall'.sessionID].approvalHistory
            after == sessions'[lastCall'.sessionID].approvalHistory
        IN /\ Len(after) <= 50
           /\ Len(after) >= 1
           /\ after[Len(after)].timestamp = now
           /\ after = LastOf(Append(before, after[Len(after)]), 50)
    ]_vars

\* the 51st outcome has evicted the first: the history is full, its entries
\* are of two different times
C15_OldestEvicted ==
  /\ sessions["default"] # NoState
  /\ sessions["default"].metrics.approvalsGranted = 51
  /\ Len(sessions["default"].approvalHistory) = 50
  /\ sessions["default"].approvalHistory[1].timestamp = 0
  /\ sessions["default"].approvalHistory[49].timestamp = 0
  /\ sessions["default"].approvalHistory[50].timestamp = 1

\* C16: in every state of a session approvalsGranted <= approvalsRequested.
C16_GrantedWithinRequested ==
  \A s \in SessionIDs :
    sessions[s] # NoState /\ sessions[s].metrics # NoMetrics =>
      sessions[s].metrics.approvalsGranted <= sessions[s].metrics.approvalsRequested

\* a session restored from its record after every request was granted
C16_AllGrantedAndRestored ==
  /\ lastCall.op = "session.created"
  /\ lastCall.restored
  /\ sessions["default"].metrics.approvalsRequested = 2
  /\ sessions["default"].metrics.approvalsGranted = 2

\* the four counters of a record
Counters(state) ==
  <<state.metrics.approvalsRequested, state.metrics.approvalsGranted,
    state.metrics.toolCallsBlocked, state.metrics.modeChanges>>

\* C17: no step in the life of a session decreases approvalsRequested,
\* approvalsGranted, toolCallsBlocked or modeChanges, the steps of
\* session.created that restore the durable record included.
C17_CountersNeverDecrease ==
  [][\A s \in SessionIDs :
       sessions[s] # NoState /\ sessions'[s] # NoState =>
         \A i \in 1..4 : Counters(sessions'[s])[i] >= Counters(sessions[s])[i]
    ]_vars

\* a write has failed: the record in memory counts a request that the durable
\* record, which the next session.created will load, does not
C17_DurableRecordBehind ==
  /\ lastCall.op = "permission.ask"
  /\ lastCall.status = "ask"
  /\ sessions["default"] # NoState
  /\ disk["default"] # NoFile
  /\ sessions["default"].metrics.approvalsRequested = 1
  /\ disk["default"].metrics.approvalsRequested = 0

\* C18: the mode of an approvalHistory entry is the mode under which the ask
\* for that call was decided.  A task without type plan is asked for under
\* restrictive only, so that every entry of such a task has mode restrictive.
C18_HistoryKeepsDecisionMode ==
  \A s \in SessionIDs :
    sessions[s] # NoState =>
      \A i \in DOMAIN sessions[s].approvalHistory :
        sessions[s].approvalHistory[i].tool = "task" =>
          sessions[s].approvalHistory[i].mode = "restrictive"

\* the outcome of a task was recorded under permissive, a mode that does not
\* ask for it
C18_RecordedUnderLaterMode ==
  /\ lastCall.op = "tool.execute.after"
  /\ lastCall.tracked
  /\ lastCall.tool = "task"
  /\ sessions["default"].currentMode = "permissive"
  /\ sessions["default"].approvalHistory[Len(sessions["default"].approvalHistory)].mode
       = "permissive"

\* C19: pendingApprovals holds the calls that were asked for and have not
\* finished: after the post-execute callback of a call, the entry of that call
\* is not in pendingApprovals.
C19_FinishedCallIsNotPending ==
  lastCall.op = "tool.execute.after" /\ sessions[lastCall.sessionID] # NoState =>
    ~SetHas(sessions[lastCall.sessionID].pendingApprovals,
            IF Truthy(lastCall.callID) THEN lastCall.callID ELSE lastCall.tool)

\* the only call ever asked for has finished and its entry is still pending
C19_EntryLeftBehind ==
  /\ lastCall.op = "tool.execute.after"
  /\ ~Truthy(lastCall.callID)
  /\ sessions["default"] # NoState
  /\ sessions["default"].metrics.approvalsRequested = 1
  /\ sessions["default"].pendingApprovals = <<"write">>

\* a pre-execute callback of a background call on a session that has a record
BackgroundStep ==
  /\ lastCall'.op = "tool.execute.before"
  /\ lastCall'.background
  /\ sessions[lastCall'.sessionID] # NoState

C21_CapFollowsMode ==
  \A s \in SessionIDs :
    sessions[s] # NoState /\ sessions[s].currentMode \in Modes =>
      sessions[s].maxConcurrentTasks = getMaxTasks(sessions[s].currentMode)

\* a message with a restrictive keyword has been processed and the cap is
\* still that of balanced
C21_KeywordKeepsOldCap ==
  /\ lastCall.op = "chat.message"
  /\ sessions[lastCall.sessionID].keywordOverride = "restrictive"
  /\ sessions[lastCall.sessionID].currentMode = "restrictive"
  /\ RestrictiveMaxTasks = 0
  /\ sessions[lastCall.sessionID].maxConcurrentTasks = BalancedMaxTasks

\* C22: a backgroundTasks entry that has left running keeps its status: no
\* step returns it to running, changes completed into error or error into
\* completed, or drops it.
C22_FinishedTaskStaysFinished ==
  [][\A s \in SessionIDs :
       sessions[s] # NoState /\ sessions'[s] # NoState =>
         \A k \in DOMAIN sessions[s].backgroundTasks.at :
           sessions[s].backgroundTasks.at[k].status # "running" =>
             /\ MapHas(sessions'[s].backgroundTasks, k)
             /\ sessions'[s].backgroundTasks.at[k].status =
                  sessions[s].backgroundTasks.at[k].status
    ]_vars

\* the first task has completed while a second one is running: the state in
\* which a second pre-execute callback for the first call id arrives
C22_FirstTaskCompleted ==
  /\ lastCall.op = "tool.execute.after"
  /\ lastCall.callID = "t1"
  /\ sessions["default"] # NoState
  /\ MapHas(sessions["default"].backgroundTasks, "t1")
  /\ MapHas(sessions["default"].backgroundTasks, "t2")
  /\ sessions["default"].backgroundTasks.at["t1"].status = "completed"
  /\ sessions["default"].backgroundTasks.at["t2"].status = "running"

\* C23: while maxConcurrentTasks of the session is 0, a pre-execute callback
\* adds no task with status running: the running tasks after the callback
\* are among those before it.
C23_ZeroCapStartsNothing ==
  [][/\ lastCall'.op = "tool.execute.before"
     /\ sessions[lastCall'.sessionID] # NoState
     /\ sessions[lastCall'.sessionID].maxConcurrentTasks = 0
     => runningTasks(sessions'[lastCall'.sessionID])
          \subseteq runningTasks(sessions[lastCall'.sessionID])
    ]_vars

\* under restrictive, cap 0, the callback has warned and recorded the call as
\* a running task
C23_StartedUnderZeroCap ==
  /\ lastCall.op = "tool.execute.before"
  /\ lastCall.warned
  /\ lastCall.callID = "t1"
  /\ sessions["default"] # NoState
  /\ sessions["default"].currentMode = "restrictive"
  /\ sessions["default"].maxConcurrentTasks = 0
  /\ runningTasks(sessions["default"]) = {"t1"}

\* the state that loadState builds from the record persistState writes
RoundTrip(state) == Deserialized(Serializable(state))

C25_DurableEqualsMemory ==
  \A s \in SessionIDs :
    sessions[s] # NoState =>
      /\ disk[s] # NoFile
      /\ Deserialized(disk[s]) = sessions[s]

\* a background task was started: it is in memory and not in the durable
\* record
C25_TaskOnlyInMemory ==
  /\ lastCall.op = "tool.execute.before"
  /\ lastCall.background
  /\ sessions["default"] # NoState
  /\ disk["default"] # NoFile
  /\ MapHas(sessions["default"].backgroundTasks, "c1")
  /\ disk["default"].backgroundTasks = <<>>

\* what no first callback of a session changes: the approval counters, the
\* history and the pending calls of a state or of a record
Carried(record) ==
  <<record.metrics.approvalsRequested, record.metrics.approvalsGranted,
    record.metrics.toolCallsBlocked, record.approvalHistory,
    NewSet(record.pendingApprovals)>>

\* C26: when a callback gives a state to a session that had none in memory
\* and that has a durable record, the state comes from the record and the
\* record is not replaced by that of a fresh state: counters, history and
\* pending calls of the state and of the record after the callback are those
\* of the record before it.
C26_FirstContactRestores ==
  [][\A s \in SessionIDs :
       sessions[s] = NoState /\ disk[s] # NoFile /\ sessions'[s] # NoState =>
         /\ Carried(sessions'[s]) = Carried(disk[s])
         /\ disk'[s] # NoFile
         /\ Carried(disk'[s]) = Carried(disk[s])
    ]_vars

\* the session was closed: no state in memory, a durable record with a
\* request and its outcome
C26_ClosedWithRecord ==
  /\ lastCall.op = "session.deleted"
  /\ sessions["default"] = NoState
  /\ disk["default"] # NoFile
  /\ disk["default"].metrics.approvalsRequested = 1
  /\ Len(disk["default"].approvalHistory) = 1

\* the mode, the counters and the history of a state or of a record
Kept(record) ==
  <<record.currentMode, record.sessionOverride, record.metrics,
    record.approvalHistory>>

\* C27: session.deleted drops the state in memory and leaves every durable
\* record as it is; session.created for a session with no state in memory and
\* a durable record makes the loaded record the state and leaves the record as
\* it is.  When the state is dropped the record that a following
\* session.created will load has its mode, counters and history; a state that
\* was never written has those of a fresh state.
C27_CloseAndReopen ==
  [][/\ lastCall'.op = "session.deleted" =>
          LET s == lastCall'.sessionID
          IN /\ disk' = disk
             /\ sessions'[s] = NoState
             /\ sessions[s] # NoState =>
                  Kept(sessions[s]) = IF disk[s] = NoFile THEN Kept(NewState(s))
                                      ELSE Kept(disk[s])
     /\ lastCall'.op = "session.created" =>
          LET s == lastCall'.sessionID
          IN sessions[s] = NoState /\ disk[s] # NoFile =>
               /\ sessions'[s] = Deserialized(disk[s])
               /\ lastCall'.restored
               /\ disk' = disk
    ]_vars

\* the tool has given the session a fresh state while its durable record,
\* the one the next session.created loads, has another mode
C27_FreshStateBesideRecord ==
  /\ lastCall.op = "autonomy_control"
  /\ lastCall.args.action = "get"
  /\ sessions["default"] # NoState
  /\ disk["default"] # NoFile
  /\ sessions["default"].currentMode = "balanced"
  /\ disk["default"].currentMode = "restrictive"

\* C28: a callback whose durable write fails ends with the state in memory
\* and the returned verdict or result of the same callback with a write that
\* succeeds, without the catch block of the hook having run, and with the
\* state of every other session as it was.
C28_FailedWriteChangesNothingElse ==
  [][/\ \A input \in AskInputs(RestoreCalls), preset \in Presets :
          PermissionAsk(input, preset, FALSE) =>
            /\ ~lastCall'.thrown
            /\ \E memory \in {sessions'}, returned \in {lastCall'} :
                 ENABLED (/\ PermissionAsk(input, preset, TRUE)
                          /\ sessions' = memory
                          /\ lastCall' = returned)
     /\ \A input \in AfterInputs(RestoreCalls), error \in BOOLEAN :
          ToolExecuteAfter(input, error, FALSE) =>
            \E memory \in {sessions'}, returned \in {lastCall'} :
              ENABLED (/\ ToolExecuteAfter(input, error, TRUE)
                       /\ sessions' = memory
                       /\ lastCall' = returned)
     /\ ChatMessage("default", NoTextPart, FALSE) =>
          \E memory \in {sessions'}, returned \in {lastCall'} :
            ENABLED (/\ ChatMessage("default", NoTextPart, TRUE)
                     /\ sessions' = memory
                     /\ lastCall' = returned)
     /\ AutonomyControl("default", SetRestrictive, FALSE) =>
          \E memory \in {sessions'}, returned \in {lastCall'} :
            ENABLED (/\ AutonomyControl("default", SetRestrictive, TRUE)
                     /\ sessions' = memory
                     /\ lastCall' = returned)
     /\ SessionCreated("default", FALSE) =>
          \E memory \in {sessions'}, returned \in {lastCall'} :
            ENABLED (/\ SessionCreated("default", TRUE)
                     /\ sessions' = memory
                     /\ lastCall' = returned)
     /\ (lastCall'.op = "autonomy_control" \/ lastCall'.sessionID = "default") =>
          \A s \in SessionIDs \ {"default"} : sessions'[s] = sessions[s]
    ]_vars

\* the write of an outcome has failed: the outcome is in memory and not in
\* the durable record
C28_OutcomeOnlyInMemory ==
  /\ lastCall.op = "tool.execute.after"
  /\ lastCall.tracked
  /\ sessions["default"] # NoState
  /\ disk["default"] # NoFile
  /\ sessions["default"].metrics.approvalsGranted = 1
  /\ sessions["default"].pendingApprovals = <<>>
  /\ disk["default"].metrics.approvalsGranted = 0
  /\ disk["default"].pendingApprovals = <<"c1">>
  /\ sessions["s1"] # NoState

\* the conversation a callback was made for
Operated(call) == IF call.op = "autonomy_control" THEN call.conv ELSE call.sessionID

\* C29: a callback made for one conversation leaves the state of every other
\* conversation as it was.
C29_OtherConversationsUntouched ==
  [][lastCall'.op \in {"autonomy_control", "permission.ask", "chat.message"}
     => \A s \in Conversations \ {Operated(lastCall')} : sessions'[s] = sessions[s]
    ]_vars

\* both conversations have a state; a set made in s1 has changed the mode and
\* the counter of "default" and not those of s1
C29_SetReachedOtherConversation ==
  /\ lastCall.op = "autonomy_control"
  /\ lastCall.conv = "s1"
  /\ lastCall.args = [action |-> "set", mode |-> "restrictive"]
  /\ sessions["s1"] # NoState
  /\ sessions["default"] # NoState
  /\ sessions["s1"].currentMode = "permissive"
  /\ sessions["s1"].metrics.modeChanges = 0
  /\ sessions["default"].currentMode = "restrictive"
  /\ sessions["default"].metrics.modeChanges = 2

\* C30: a set that succeeds with mode m makes sessionOverride and currentMode
\* m, adds one to modeChanges, makes maxConcurrentTasks the maximum configured
\* for m, and leaves defaultMode, pendingApprovals, approvalHistory,
\* backgroundTasks and the three other counters as they were (as they are in
\* a fresh state when the session had none).
C30_SetModeFrame ==
  [][/\ lastCall'.op = "autonomy_control"
     /\ lastCall'.args.action = "set"
     /\ lastCall'.result = "Mode changed"
     => LET m == lastCall'.args.mode
            before == IF sessions["default"] = NoState THEN NewState("default")
                      ELSE sessions["default"]
            after == sessions'["default"]
        IN /\ after.sessionOverride = m
           /\ after.currentMode = m
           /\ after.metrics.modeChanges = before.metrics.modeChanges + 1
           /\ after.maxConcurrentTasks =
                CASE m = "permissive" -> PermissiveMaxTasks
                  [] m = "balanced" -> BalancedMaxTasks
                  [] m = "restrictive" -> RestrictiveMaxTasks
           /\ after.defaultMode = before.defaultMode
           /\ after.pendingApprovals = before.pendingApprovals
           /\ after.approvalHistory = before.approvalHistory
           /\ after.backgroundTasks = before.backgroundTasks
           /\ after.metrics.approvalsRequested = before.metrics.approvalsRequested
           /\ after.metrics.approvalsGranted = before.metrics.approvalsGranted
           /\ after.metrics.toolCallsBlocked = before.metrics.toolCallsBlocked
    ]_vars

\* a set to permissive on a state with a pending call, a running task and an
\* outcome in its history
C30_SetWithWorkInFlight ==
  /\ lastCall.op = "autonomy_control"
  /\ lastCall.args.action = "set"
  /\ lastCall.result = "Mode changed"
  /\ sessions["default"].sessionOverride = "permissive"
  /\ sessions["default"].maxConcurrentTasks = PermissiveMaxTasks
  /\ sessions["default"].metrics.modeChanges = 1
  /\ sessions["default"].pendingApprovals = <<"c1">>
  /\ Len(sessions["default"].approvalHistory) = 1
  /\ runningTasks(sessions["default"]) = {"c1"}

\* the results with which the tool refuses a set
SetErrors == {"Error: mode is required when action is 'set'", "Error: Invalid mode"}

\* C31: a set with no mode, or with a mode that is not permissive, balanced
\* or restrictive, returns an error result and changes nothing: the state of
\* the session (a fresh one when it had none) and the durable records are as
\* before.
C31_InvalidSetChangesNothing ==
  [][/\ lastCall'.op = "autonomy_control"
     /\ lastCall'.args.action = "set"
     /\ lastCall'.args.mode \notin {"permissive", "balanced", "restrictive"}
     => LET before == IF sessions["default"] = NoState THEN NewState("default")
                      ELSE sessions["default"]
            after == sessions'["default"]
        IN /\ lastCall'.result \in SetErrors
           /\ after.sessionOverride = before.sessionOverride
           /\ after.currentMode = before.currentMode
           /\ after.metrics = before.metrics
           /\ after.maxConcurrentTasks = before.maxConcurrentTasks
           /\ after = before
           /\ disk' = disk
    ]_vars

\* a set to an unknown mode was refused on a session that has a session
\* override and a keyword mode
C31_UnknownModeRefused ==
  /\ lastCall.op = "autonomy_control"
  /\ lastCall.args = [action |-> "set", mode |-> "turbo"]
  /\ lastCall.result = "Error: Invalid mode"
  /\ sessions["default"].sessionOverride = "permissive"
  /\ sessions["default"].currentMode = "restrictive"
  /\ sessions["default"].metrics.modeChanges = 1


(***************************************************************************)
(* The autonomy-controller hook (src/unnamed/part_003)                     *)
(***************************************************************************)
AutonomyLevels == {"high", "medium", "low"}

\* getPermissiveDefaults(): approval_required of the three levels
getPermissiveDefaults ==
  [high_autonomy |-> [approval_required |-> FALSE],
   medium_autonomy |-> [approval_required |-> FALSE],
   low_autonomy |-> [approval_required |-> FALSE]]

\* getBalancedDefaults()
getBalancedDefaults ==
  [high_autonomy |-> [approval_required |-> FALSE],
   medium_autonomy |-> [approval_required |-> FALSE],
   low_autonomy |-> [approval_required |-> TRUE]]

\* getRestrictiveDefaults()
getRestrictiveDefaults ==
  [high_autonomy |-> [approval_required |-> TRUE],
   medium_autonomy |-> [approval_required |-> TRUE],
   low_autonomy |-> [approval_required |-> TRUE]]

\* loadAutonomyConfig(config): modes and approval_gates, for a configuration
\* that names a default mode or none and leaves the rest to the defaults
loadAutonomyConfig(hookConfig) ==
  [modes |-> [default |-> IF Truthy(hookConfig.modes.default)
                          THEN hookConfig.modes.default ELSE "balanced",
              permissive |-> getPermissiveDefaults,
              balanced |-> getBalancedDefaults,
              restrictive |-> getRestrictiveDefaults],
   approval_gates |-> [high |-> [required |-> FALSE],
                       medium |-> [required |-> FALSE],
                       low |-> [required |-> TRUE]]]

\* a variant of the lookup that reads the override of session "default"
getSessionAutonomyMode_OfDefault(sessionId) ==
  IF MapHas(sessionAutonomyStore, "default") THEN sessionAutonomyStore.at["default"]
  ELSE Null

\* sessionAutonomyStore.get(sessionId) || null
getSessionAutonomyMode(sessionId) ==
  IF MapHas(sessionAutonomyStore, sessionId) THEN sessionAutonomyStore.at[sessionId]
  ELSE Null

\* overrideMode ? { ...baseConfig, modes: { ...baseConfig.modes, default: overrideMode } }
\*              : baseConfig
WithOverride(overrideMode) ==
  IF overrideMode # Null THEN [baseConfig EXCEPT !.modes.default = overrideMode]
  ELSE baseConfig

\* requiresApproval(level, config)
requiresApproval(level, hookConfig) ==
  LET name == hookConfig.modes.default
      key == level \o "_autonomy"
  IN IF name \in DOMAIN hookConfig.modes \ {"default"}
          /\ key \in DOMAIN hookConfig.modes[name]
     THEN hookConfig.modes[name][key].approval_required
     ELSE IF level \in DOMAIN hookConfig.approval_gates
          THEN hookConfig.approval_gates[level].required
          ELSE TRUE

\* createAutonomyControllerHook(input): baseConfig = loadAutonomyConfig(input.config)
createAutonomyControllerHook(input) ==
  /\ baseConfig = NoHook
  /\ baseConfig' = loadAutonomyConfig(input.config)
  /\ lastCall' = [op |-> "createAutonomyControllerHook", input |-> input]
  /\ UNCHANGED <<config, sessions, disk, now, sessionAutonomyStore>>

setSessionAutonomyMode(sessionId, mode) ==
  /\ sessionAutonomyStore' = MapSet(sessionAutonomyStore, sessionId, mode)
  /\ lastCall' = [op |-> "setSessionAutonomyMode", sessionId |-> sessionId, mode |-> mode]
  /\ UNCHANGED <<config, sessions, disk, now, baseConfig>>

clearSessionAutonomyMode(sessionId) ==
  /\ sessionAutonomyStore' = MapDelete(sessionAutonomyStore, sessionId)
  /\ lastCall' = [op |-> "clearSessionAutonomyMode", sessionId |-> sessionId]
  /\ UNCHANGED <<config, sessions, disk, now, baseConfig>>

\* onToolUse(toolCall, context) of the hook that was created
onToolUse(context) ==
  LET autonomyLevel == IF Truthy(context.autonomy_level) THEN context.autonomy_level
                       ELSE "medium"
      sessionId == IF Truthy(context.session_id) THEN context.session_id ELSE "default"
      overrideMode == getSessionAutonomyMode(sessionId)
      hookConfig == WithOverride(overrideMode)
      blocked == requiresApproval(autonomyLevel, hookConfig) /\ ~context.approved
  IN /\ baseConfig # NoHook
     /\ lastCall' = [op |-> "onToolUse", context |-> context, blocked |-> blocked]
     /\ UNCHANGED <<config, sessions, disk, now, baseConfig, sessionAutonomyStore>>

\* the configuration the host creates the hook with: a default mode or none
HookInputs == {[config |-> [modes |-> [default |-> d]]] : d \in Modes \cup {Undefined}}

\* the execution contexts of a tool call: with and without level and session
\* id, approved or not
Contexts ==
  [autonomy_level : AutonomyLevels \cup {Undefined},
   session_id : SessionIDs \cup {Undefined},
   approved : BOOLEAN]

NextHook ==
  \/ \E input \in HookInputs : createAutonomyControllerHook(input)
  \/ \E sessionId \in SessionIDs, mode \in Modes : setSessionAutonomyMode(sessionId, mode)
  \/ \E sessionId \in SessionIDs : clearSessionAutonomyMode(sessionId)
  \/ \E context \in Contexts : onToolUse(context)

SpecHook == Init /\ [][NextHook]_vars

(***************************************************************************)
(* The functions of utils/risk-detection.ts applied to names and commands  *)
(***************************************************************************)
\* tool names: every name of the three lists and one of no list, in lower
\* case, in upper case and capitalised; the empty name, no name, a number
ToolNames ==
  {"write", "WRITE", "Write", "edit", "EDIT", "Edit", "bash", "BASH", "Bash", "delete",
   "DELETE", "Delete", "execute", "EXECUTE", "Execute", "commit", "COMMIT", "Commit",
   "patch", "PATCH", "Patch", "task", "TASK", "Task", "fetch", "FETCH", "Fetch",
   "search", "SEARCH", "Search", "ask", "ASK", "Ask", "read", "READ", "Read", "list",
   "LIST", "List", "grep", "GREP", "Grep", "glob", "GLOB", "Glob", "search_files",
   "SEARCH_FILES", "Search_files", "deploy", "DEPLOY", "Deploy", "", Undefined,
   NotAString}

\* commands: destructive and harmless ones, rm with its flags in four
\* arrangements; the empty command, no command, a number
Commands ==
  {"rm -rf /tmp/x", "rm -fr ./x", "rm *.txt", "rmdir x", "drop table users",
   "drop database mydb", "truncate table users", "sudo rm -rf /", "ls -la", "echo hi",
   "cat f.txt", "grep x f.txt", "rm -rf x", "rm -fr x", "rm -r -f x", "rm -f -r x",
   "rm f.txt", "DELETE FROM users", "echo x > /etc/hosts", "mkfs /dev/sda",
   "dd if=/dev/zero of=/dev/sda", "format c:", "", Undefined, NotAString}

\* getToolRiskLevel(tool)
ClassifyTool(tool) ==
  /\ lastCall' = [op |-> "getToolRiskLevel", tool |-> tool, result |-> getToolRiskLevel(tool)]
  /\ UNCHANGED <<config, baseConfig, sessionAutonomyStore, sessions, disk, now>>

\* isDestructiveCommand(command)
DetectCommand(command) ==
  /\ lastCall' = [op |-> "isDestructiveCommand", command |-> command,
                  result |-> isDestructiveCommand(command)]
  /\ UNCHANGED <<config, baseConfig, sessionAutonomyStore, sessions, disk, now>>

NextRisk ==
  \/ \E tool \in ToolNames : ClassifyTool(tool)
  \/ \E command \in Commands : DetectCommand(command)

SpecRisk == Init /\ [][NextRisk]_vars

\* the group of the keyword each message leads with, Null when it leads with none
KeywordGroup ==
  LeadingKeyword @@ "ulw: go " :> "permissive" @@ "ulw: careful: x" :> "permissive" @@
  "Production:   deploy now" :> "restrictive" @@ " hi " :> Null

\* each message without the keyword, its separator and the white space after
\* it, and without the white space around the message when it has a keyword
OnwardTrimmed ==
  "ulw: go" :> <<"g", "o">> @@ " Quick:  fix" :> <<"f", "i", "x">> @@
  "careful: x" :> <<"x">> @@ "SAFE:y" :> <<"y">> @@
  "hello" :> <<"h", "e", "l", "l", "o">> @@ "fast go" :> <<"f", "a", "s", "t", " ", "g", "o">> @@
  "go ulw: x" :> <<"g", "o", " ", "u", "l", "w", ":", " ", "x">> @@ "" :> <<>> @@
  NoTextPart :> <<>> @@ "ulw: go " :> <<"g", "o">> @@
  "ulw: careful: x" :> <<"c", "a", "r", "e", "f", "u", "l", ":", " ", "x">> @@
  "Production:   deploy now" :> <<"d", "e", "p", "l", "o", "y", " ", "n", "o", "w">> @@
  " hi " :> <<" ", "h", "i", " ">>

\* each message with exactly the keyword, its separator and the white space
\* after it removed: the white space at the end of the message stays
OnwardExact ==
  [OnwardTrimmed EXCEPT !["ulw: go "] = <<"g", "o", " ">>]

\* C32 as stated: a chat.message call leaves in keywordOverride the group of
\* the keyword the message leads with, empty when it leads with none, and
\* passes on the text with exactly the keyword prefix and the white space
\* after it removed (unchanged when there is no keyword).
C32_ExactPrefixRemoved ==
  [][lastCall'.op = "chat.message"
     => /\ sessions'[lastCall'.sessionID].keywordOverride = KeywordGroup[lastCall'.text]
        /\ lastCall'.textAfter = OnwardExact[lastCall'.text]]_vars

\* C32, amended: a chat.message call leaves in keywordOverride the group of
\* the keyword the message leads with, empty when it leads with none; with a
\* keyword the text passed on is the message trimmed of the white space around
\* it, without the keyword prefix and the white space after it; without one
\* the text is passed on unchanged.
C32_KeywordStripped ==
  [][lastCall'.op = "chat.message"
     => /\ sessions'[lastCall'.sessionID].keywordOverride = KeywordGroup[lastCall'.text]
        /\ lastCall'.textAfter = OnwardTrimmed[lastCall'.text]]_vars

\* a message with white space after its text has had keyword and white space removed
C32_TrailingSpaceGone ==
  /\ lastCall.op = "chat.message"
  /\ lastCall.text = "ulw: go "
  /\ lastCall.textAfter = <<"g", "o">>
  /\ sessions["default"] # NoState
  /\ sessions["default"].keywordOverride = "permissive"
  /\ sessions["default"].sessionOverride = "restrictive"

\* the tier of the list each name is in when letter case is put aside, medium
\* for a name of no list, for the empty name and for what is not a string
TierOfName ==
  "write" :> "high" @@ "WRITE" :> "high" @@ "Write" :> "high" @@ "edit" :> "high" @@
  "EDIT" :> "high" @@ "Edit" :> "high" @@ "bash" :> "high" @@ "BASH" :> "high" @@
  "Bash" :> "high" @@ "delete" :> "high" @@ "DELETE" :> "high" @@ "Delete" :> "high" @@
  "execute" :> "high" @@ "EXECUTE" :> "high" @@ "Execute" :> "high" @@
  "commit" :> "high" @@ "COMMIT" :> "high" @@ "Commit" :> "high" @@
  "patch" :> "high" @@ "PATCH" :> "high" @@ "Patch" :> "high" @@ "task" :> "medium" @@
  "TASK" :> "medium" @@ "Task" :> "medium" @@ "fetch" :> "medium" @@
  "FETCH" :> "medium" @@ "Fetch" :> "medium" @@ "search" :> "medium" @@
  "SEARCH" :> "medium" @@ "Search" :> "medium" @@ "ask" :> "medium" @@
  "ASK" :> "medium" @@ "Ask" :> "medium" @@ "read" :> "low" @@ "READ" :> "low" @@
  "Read" :> "low" @@ "list" :> "low" @@ "LIST" :> "low" @@ "List" :> "low" @@
  "grep" :> "low" @@ "GREP" :> "low" @@ "Grep" :> "low" @@ "glob" :> "low" @@
  "GLOB" :> "low" @@ "Glob" :> "low" @@ "search_files" :> "low" @@
  "SEARCH_FILES" :> "low" @@ "Search_files" :> "low" @@ "deploy" :> "medium" @@
  "DEPLOY" :> "medium" @@ "Deploy" :> "medium" @@ "" :> "medium" @@
  Undefined :> "medium" @@ NotAString :> "medium"

\* C33: getToolRiskLevel returns the tier of its list that contains the name,
\* compared without regard to letter case, and medium for a name of no list,
\* for the empty name and for a name that is not a string.
C33_TierOfBuiltInList ==
  lastCall.op = "getToolRiskLevel" => lastCall.result = TierOfName[lastCall.tool]

\* an upper-case name has been rated by the list of its lower-case form
C33_UpperCaseRated ==
  /\ lastCall.op = "getToolRiskLevel"
  /\ lastCall.tool = "GREP"
  /\ lastCall.result = "low"

\* what the corpus says of each of its commands
Corpus ==
  "rm -rf /tmp/x" :> TRUE @@ "rm -fr ./x" :> TRUE @@ "rm *.txt" :> TRUE @@
  "rmdir x" :> TRUE @@ "drop table users" :> TRUE @@ "drop database mydb" :> TRUE @@
  "truncate table users" :> TRUE @@ "sudo rm -rf /" :> TRUE @@
  "ls -la" :> FALSE @@ "echo hi" :> FALSE @@ "cat f.txt" :> FALSE @@
  "grep x f.txt" :> FALSE @@
  "" :> FALSE @@ Undefined :> FALSE @@ NotAString :> FALSE

\* C34: isDestructiveCommand is true of every command of the positive corpus,
\* false of every command of the negative corpus, and false of the empty
\* command and of what is not a string.
C34_CorpusDetected ==
  lastCall.op = "isDestructiveCommand" /\ lastCall.command \in DOMAIN Corpus
    => lastCall.result = Corpus[lastCall.command]

\* a statement on a table has been reported destructive
C34_DropTableReported ==
  /\ lastCall.op = "isDestructiveCommand"
  /\ lastCall.command = "drop table users"
  /\ lastCall.result = TRUE

\* rm with a recursive and a force flag, combined or separate, in both orders
RecursiveForced == {"rm -rf x", "rm -fr x", "rm -r -f x", "rm -f -r x"}

\* C35: isDestructiveCommand reports every rm that carries both a recursive
\* and a force flag, in any order, combined in one argument or separate.
C35_RecursiveForcedReported ==
  lastCall.op = "isDestructiveCommand" /\ lastCall.command \in RecursiveForced
    => lastCall.result = TRUE

\* rm with the force flag before a separate recursive flag has passed as harmless
C35_ForceThenRecursiveMissed ==
  /\ lastCall.op = "isDestructiveCommand"
  /\ lastCall.command = "rm -f -r x"
  /\ lastCall.result = FALSE

\* getDefaultConfig().autonomy.toolRiskLevels
toolRiskLevels ==
  [high |-> <<"write", "edit", "bash", "delete", "commit">>,
   medium |-> <<"task", "patch">>,
   low |-> <<"read", "list", "grep", "glob", "search">>]

\* C37: under the default configuration getToolRiskLevel returns, for every
\* name of the configured lists toolRiskLevels.high, .medium and .low, the
\* tier of the configured list that contains the name.
C37_TierOfConfiguredList ==
  lastCall.op = "getToolRiskLevel"
    => \A level \in DOMAIN toolRiskLevels :
         (\E i \in DOMAIN toolRiskLevels[level] : toolRiskLevels[level][i] = lastCall.tool)
           => lastCall.result = level

\* a name the configuration rates medium has been rated high
C37_PatchRatedHigh ==
  /\ lastCall.op = "getToolRiskLevel"
  /\ lastCall.tool = "patch"
  /\ \E i \in DOMAIN toolRiskLevels.medium : toolRiskLevels.medium[i] = lastCall.tool
  /\ lastCall.result = "high"

\* how get and status name the origin of the mode
ProvenanceWording ==
  [get |-> [message |-> "Keyword override active", session |-> "Session override active",
            default |-> "Using default"],
   status |-> [message |-> "Keyword", session |-> "Session", default |-> "None"]]

\* C36: get and status report the override that determined currentMode: the
\* keyword one when a keyword override is active, also when a session override
\* is set; the session one when only that is set; default when neither is.
C36_ProvenanceReported ==
  lastCall.op = "autonomy_control" /\ lastCall.args.action \in {"get", "status"}
    => LET state == sessions["default"]
           provenance == IF state.keywordOverride # Null THEN "message"
                         ELSE IF state.sessionOverride # Null THEN "session"
                         ELSE "default"
       IN lastCall.result = ProvenanceWording[lastCall.args.action][provenance]

\* status has named the session override while the keyword decides the mode
C36_KeywordReportedAsSession ==
  /\ lastCall.op = "autonomy_control"
  /\ lastCall.args.action = "status"
  /\ lastCall.result = "Session"
  /\ sessions["default"].sessionOverride = "restrictive"
  /\ sessions["default"].keywordOverride = "permissive"
  /\ sessions["default"].currentMode = "permissive"

\* C38: under permissive a check of the shell tool with a destructive command
\* is answered ask whatever the letter case of the tool's name, as it is for
\* the lower-case name.
C38_GateCoversEveryCasing ==
  /\ CheckedUnder("permissive")
  /\ lastCall.tool \in {"bash", "Bash"}
  /\ isHighRiskTool(lastCall.tool)
  /\ lastCall.args.command = "rm -rf /tmp/x"
  => lastCall.status = "ask"

\* the capitalised shell tool has been allowed a destructive command
C38_CapitalisedShellAllowed ==
  /\ CheckedUnder("permissive")
  /\ lastCall.tool = "Bash"
  /\ isHighRiskTool(lastCall.tool)
  /\ lastCall.args.command = "rm -rf /tmp/x"
  /\ lastCall.status = "allow"

\* the requests of a record that have an outcome or wait for one
Settled(state) ==
  state.metrics.approvalsGranted + state.metrics.toolCallsBlocked
    + Len(state.pendingApprovals)

\* the record balances: every request has an outcome or waits for one
Balances(state) == Settled(state) = state.metrics.approvalsRequested

\* the step is a check answered ask whose call has no id, or the id of a call
\* that is already pending
AskWithoutFreshId ==
  /\ lastCall'.op = "permission.ask"
  /\ lastCall'.status = "ask"
  /\ \/ ~Truthy(lastCall'.callID)
     \/ /\ sessions[lastCall'.sessionID] # NoState
        /\ SetHas(sessions[lastCall'.sessionID].pendingApprovals, lastCall'.callID)

\* C39: in every state approvalsGranted + toolCallsBlocked + the number of
\* pending approvals is at most approvalsRequested; a record starts balanced
\* and stays balanced through every step but an ask that carries no call id or
\* the id of a pending call, so that the two sides are equal as long as every
\* ask carried a call id of its own.
C39_ApprovalsConserved ==
  [][\A s \in SessionIDs :
       sessions'[s] # NoState =>
         /\ Settled(sessions'[s]) <= sessions'[s].metrics.approvalsRequested
         /\ IF sessions[s] = NoState THEN Balances(sessions'[s])
            ELSE Balances(sessions[s]) /\ ~AskWithoutFreshId => Balances(sessions'[s])
    ]_vars

\* a granted request and a pending one make up the two requests of the record
C39_OneGrantedOnePending ==
  /\ lastCall.op = "permission.ask"
  /\ lastCall.status = "ask"
  /\ lastCall.callID = "c2"
  /\ sessions["default"] # NoState
  /\ sessions["default"].metrics.approvalsRequested = 2
  /\ sessions["default"].metrics.approvalsGranted = 1
  /\ sessions["default"].metrics.toolCallsBlocked = 0
  /\ ArrayFromSet(sessions["default"].pendingApprovals) = <<"c2">>

\* whether a mode asks for approval at a level, by the settings of the modes
ApprovalRequired ==
  [permissive |-> [high |-> FALSE, medium |-> FALSE, low |-> FALSE],
   balanced |-> [high |-> FALSE, medium |-> FALSE, low |-> TRUE],
   restrictive |-> [high |-> TRUE, medium |-> TRUE, low |-> TRUE]]

\* the session a context belongs to, and its level
ContextSession(context) ==
  IF context.session_id = Undefined THEN "default" ELSE context.session_id

ContextLevel(context) ==
  IF context.autonomy_level = Undefined THEN "medium" ELSE context.autonomy_level

====
